---- MODULE Spec2Model ----
(***************************************************************************)
(* Job orchestration and retry core of the discovery-call backend:         *)
(*   - withExponentialBackoff (utils/retry),                               *)
(*   - the job store (db) and POST /process-file, DELETE /jobs/:id,        *)
(*   - runAnalysisForJob (server),                                         *)
(*   - processDropboxAudioEvent (workflows/dropboxWhisper).                *)
(*   - POST /webhooks/teams with its clients and the ingest log,           *)
(*   - the store interface on both backends, call by call,                 *)
(*   - the pre-call plans of both backends and DELETE /precall-plans/:id.  *)
(* Texts (messages, summaries) are sequences of string pieces, so that    *)
(* JavaScript's string concatenation is \o and null is the empty text.     *)
(***************************************************************************)
EXTENDS Integers, Sequences, FiniteSets, TLC

VARIABLES
  \* ---- withExponentialBackoff: one call of it ----
  rOpts,      \* the options of the call: retries, baseMs, factor (a fraction)
  rPc,        \* "call" | "caught" | "sleep" | "resolved" | "rejected"
  rAttempt,   \* the local `attempt`
  rErr,       \* the error caught from the last invocation of fn
  rThrown,    \* the error withExponentialBackoff rejected with (Null before)
  rTrace,     \* what the call did so far: invocations, onRetry calls, sleeps
  \* ---- the job store, the HTTP handlers and runAnalysisForJob ----
  cfg,        \* process configuration: backend, openai, recipient
  store,      \* the jobs table: id -> record, for the ids that have one
  pc,         \* per upload request: where its runAnalysisForJob is
  fileOnDisk, \* per upload request: whether its audio file exists
  delPending, \* ids whose DELETE /jobs/:id is between unlink and deleteJobById
  jTrace,     \* per upload request: what its pipeline did so far
  clock,      \* the reading of Date.now(), in milliseconds
  jobIdOf,    \* per upload request: the id generateJobId gave it (0 before)
  issuedAt,   \* per job id: the millisecond it was generated in (0: never)
  res,        \* per upload request: the status of its response (0: none yet)
  \* ---- processDropboxAudioEvent: one run of it ----
  dPc,        \* "start" | "await" | "returned" | "thrown"
  dStage,     \* the index of the stage being awaited (0 before the first)
  dErr,       \* the error the run rejected with (Null before)
  dTrace,     \* what the run did so far: stage invocations, ingest events
  \* ---- one request to /webhooks/teams, or one call of a client ----
  wReq,       \* the request and the environment it meets
  wPc,        \* "idle" | "download" | "post" | "responded" | "resolved" | "rejected"
  wAttempt,   \* the `attempt` of the retried operation under way
  wTrace,     \* what was done: HTTP requests, attempts, ingest events
  wResp,      \* the HTTP response of the webhook (status 0 before)
  wErr,       \* the error caught by the handler or thrown by the client call
  ingestLog,  \* the lines of logs/ingest.jsonl
  \* ---- the two job stores, driven by the same calls ----
  sTbl,       \* per backend: the jobs it holds, id -> record
  sOrd,       \* per backend: the ids in the order of the `jobs` array / of rowid
  sCall,      \* the last call made on both stores
  sRes,       \* per backend: what that call returned or raised
  sCalls,     \* the number of calls made
  \* ---- jobs and pre-call plans in the two stores, with string ids ----
  memDb,      \* createInMemoryDb: jobsById (key -> object), jobs, the objects
  sqlDb,      \* createSqliteDb: the tables jobs and precall_plans, id -> row
  pCall,      \* the last call made on both
  pRes,       \* per backend: what that call returned, raised or answered
  pCalls      \* the number of calls made

retryVars == <<rOpts, rPc, rAttempt, rErr, rThrown, rTrace>>
jobVars == <<cfg, store, pc, fileOnDisk, delPending, jTrace, clock, jobIdOf, issuedAt,
             res>>
dropboxVars == <<dPc, dStage, dErr, dTrace>>
webhookVars == <<wReq, wPc, wAttempt, wTrace, wResp, wErr, ingestLog>>
planVars == <<memDb, sqlDb, pCall, pRes, pCalls>>
storeVars == <<sTbl, sOrd, sCall, sRes, sCalls, planVars>>
vars == <<retryVars, jobVars, dropboxVars, webhookVars, storeVars>>

\* null, for texts
Null == <<>>

Max0(x) == IF x > 0 THEN x ELSE 0

RECURSIVE Pow(_, _)
Pow(b, e) == IF e = 0 THEN 1 ELSE b * Pow(b, e - 1)

(***************************************************************************)
(* withExponentialBackoff(fn, {retries, baseMs, factor, onRetry})          *)
(***************************************************************************)

\* The largest retry budget tried.
MaxRetries == 3

\* baseMs values tried: RETRY_BASE_MS comes from the environment unchecked,
\* so zero and negative values are inputs too.
BaseMsValues == {-3, 0, 1, 7, 50}

\* factor values tried, as fractions <<numerator, denominator>>: 2, 3/2, 1/2.
FactorValues == {<<2, 1>>, <<3, 2>>, <<1, 2>>}

\* The errors fn may raise.
Errors == {<<"E1">>, <<"E2">>}

\* A mis-computed delay: linear instead of exponential backoff.
BackoffDelayLinear(baseMs, factor, attempt) ==
  Max0((baseMs * factor[1] * attempt) \div factor[2])

\* Math.max(0, Math.floor(baseMs * Math.pow(factor, attempt)))
BackoffDelay(baseMs, factor, attempt) ==
  Max0((baseMs * Pow(factor[1], attempt)) \div Pow(factor[2], attempt))

\* An off-by-one budget test: one retry too many.
BudgetExhaustedLate(attempt, retries) == attempt > retries

\* if (attempt >= retries) throw err;
BudgetExhausted(attempt, retries) == attempt >= retries

\* A wrapping rethrow, which hides the root cause.
RethrowWrapped(err) == <<"Retry failed: ">> \o err

\* throw err;
Rethrow(err) == err

InitRetry ==
  /\ rOpts \in [retries : 0..MaxRetries, baseMs : BaseMsValues \cup {100},
              factor : FactorValues]
  /\ rPc = "call"
  /\ rAttempt = 0
  /\ rErr = Null
  /\ rThrown = Null
  /\ rTrace = <<>>

\* return await fn(attempt): fn resolves.
RetryInvokeOk ==
  /\ rPc = "call"
  /\ rTrace' = Append(rTrace, [ev |-> "call", attempt |-> rAttempt, delay |-> 0, err |-> Null])
  /\ rPc' = "resolved"
  /\ UNCHANGED <<rOpts, rAttempt, rErr, rThrown, jobVars, dropboxVars, webhookVars, storeVars>>

\* return await fn(attempt): fn rejects with e, caught by catch (err).
RetryInvokeFail(e) ==
  /\ rPc = "call"
  /\ rTrace' = Append(rTrace, [ev |-> "call", attempt |-> rAttempt, delay |-> 0, err |-> e])
  /\ rErr' = e
  /\ rPc' = "caught"
  /\ UNCHANGED <<rOpts, rAttempt, rThrown, jobVars, dropboxVars, webhookVars, storeVars>>

\* The catch block, up to its first suspension: rethrow when the budget is
\* spent; otherwise compute the delay, call onRetry (whose own exception is
\* swallowed) and either sleep or, for a delay of 0, go on at once.
RetryCatch ==
  /\ rPc = "caught"
  /\ IF BudgetExhausted(rAttempt, rOpts.retries)
     THEN /\ rThrown' = Rethrow(rErr)
          /\ rPc' = "rejected"
          /\ UNCHANGED <<rAttempt, rTrace>>
     ELSE LET delay == BackoffDelay(rOpts.baseMs, rOpts.factor, rAttempt)
              seen == Append(rTrace, [ev |-> "onRetry", attempt |-> rAttempt,
                                      delay |-> delay, err |-> rErr])
          IN IF delay > 0
             THEN /\ rTrace' = Append(seen, [ev |-> "sleep", attempt |-> rAttempt,
                                             delay |-> delay, err |-> Null])
                  /\ rPc' = "sleep"
                  /\ UNCHANGED <<rAttempt, rThrown>>
             ELSE /\ rTrace' = seen
                  /\ rAttempt' = rAttempt + 1
                  /\ rPc' = "call"
                  /\ UNCHANGED rThrown
  /\ UNCHANGED <<rOpts, rErr, jobVars, dropboxVars, webhookVars, storeVars>>

\* await sleep(delay) is over: attempt += 1 and the loop goes round.
RetryWake ==
  /\ rPc = "sleep"
  /\ rAttempt' = rAttempt + 1
  /\ rPc' = "call"
  /\ UNCHANGED <<rOpts, rErr, rThrown, rTrace, jobVars, dropboxVars, webhookVars, storeVars>>

(***************************************************************************)
(* The job store: createSqliteDb / createInMemoryDb                        *)
(***************************************************************************)

\* The number of upload requests, and of job ids, in play.
MaxJobs == 2

\* The upload requests (POST /process-file), in no particular order.
Requests == 1..MaxJobs

\* The ids generateJobId can return: each stands for one string of
\* Date.now() followed by a three-digit random suffix.
JobIds == 1..MaxJobs

\* emailSentAt: null (timestamps are clock readings, all of them >= 1)
NoTime == 0

\* The two stores behind the one interface.
Backends == {"sqlite", "memory"}

\* The error a failing SQLite statement raises.
StoreError == <<"SqliteError: disk I/O error">>

\* A statement of the SQLite store may raise; the in-memory store's Map and
\* array operations cannot. TRUE stands for the call returning normally.
StoreOutcomes == IF cfg.backend = "sqlite" THEN BOOLEAN ELSE {TRUE}

\* const allowed = [...] of updateJob
AllowedFields ==
  {"filename", "originalname", "status", "resultSummary", "analysisJson",
   "error", "emailStatus", "emailSentAt"}

\* The record createJob builds from the job object of POST /process-file
\* (`x || null` for the fields the caller leaves out, status: job.status ||
\* "uploaded", updatedAt: now).
NewJobRecord(job, now) ==
  [id |-> job.id,
   filename |-> job.filename,
   originalname |-> job.originalname,
   status |-> IF job.status = "" THEN "uploaded" ELSE job.status,
   createdAt |-> IF job.createdAt = NoTime THEN now ELSE job.createdAt,
   updatedAt |-> now,
   resultSummary |-> Null,
   analysisJson |-> Null,
   error |-> Null,
   emailStatus |-> job.emailStatus,
   emailSentAt |-> job.emailSentAt]

\* createJob(job) when its statement does not fail for I/O reasons: the
\* in-memory store sets the id (replacing a record that has it); the SQLite
\* INSERT is refused by the primary key when the id exists, leaving the table
\* as it was.
CreateJobIn(backend, st, job, now) ==
  IF backend = "sqlite" /\ job.id \in DOMAIN st
  THEN st
  ELSE [i \in DOMAIN st \cup {job.id} |->
          IF i = job.id THEN NewJobRecord(job, now) ELSE st[i]]

\* Whether createJob(job) raises for the duplicate id.
CreateJobRefusedIn(backend, st, job) == backend = "sqlite" /\ job.id \in DOMAIN st

\* createJob of the store the process runs with.
CreateJob(st, job, now) == CreateJobIn(cfg.backend, st, job, now)
CreateJobRefused(st, job) == CreateJobRefusedIn(cfg.backend, st, job)

\* An updateJob that merges every key of `fields` into the record.
UpdateJobMerging(st, id, fields, now) ==
  IF id \notin DOMAIN st \/ DOMAIN fields = {}
  THEN st
  ELSE [st EXCEPT ![id] =
          [k \in DOMAIN st[id] |->
             IF k \in DOMAIN fields THEN fields[k]
             ELSE IF k = "updatedAt" THEN now
             ELSE st[id][k]]]

\* An updateJob that sets updatedAt whatever `fields` holds.
UpdateJobStamping(st, id, fields, now) ==
  LET keys == DOMAIN fields \cap AllowedFields
  IN IF id \notin DOMAIN st
     THEN st
     ELSE [st EXCEPT ![id] =
             [k \in DOMAIN st[id] |->
                IF k \in keys THEN fields[k]
                ELSE IF k = "updatedAt" THEN now
                ELSE st[id][k]]]

\* An updateJob without its WHERE id = @id: the fields go to every record.
UpdateJobEveryRow(st, id, fields, now) ==
  LET keys == DOMAIN fields \cap AllowedFields
  IN IF id \notin DOMAIN st \/ keys = {}
     THEN st
     ELSE [i \in DOMAIN st |->
             [k \in DOMAIN st[i] |->
                IF k \in keys THEN fields[k]
                ELSE IF k = "updatedAt" THEN now
                ELSE st[i][k]]]

\* An updateJob that inserts the record when the id is absent.
UpdateJobUpserting(st, id, fields, now) ==
  LET keys == DOMAIN fields \cap AllowedFields
      blank == NewJobRecord([id |-> id, filename |-> <<"upload-", id>>,
                             originalname |-> Null, status |-> "",
                             createdAt |-> now, emailStatus |-> "pending",
                             emailSentAt |-> NoTime], now)
  IN IF keys = {}
     THEN st
     ELSE [i \in DOMAIN st \cup {id} |->
             IF i # id THEN st[i]
             ELSE [k \in DOMAIN blank |->
                     IF k \in keys THEN fields[k]
                     ELSE IF k = "updatedAt" THEN now
                     ELSE IF id \in DOMAIN st THEN st[id][k]
                     ELSE blank[k]]]

\* updateJob(id, fields) when its statement does not fail: only the allowed
\* keys present in `fields` are set, and updatedAt with them; an absent id
\* and an update naming no allowed key change nothing.
UpdateJob(st, id, fields, now) ==
  LET keys == DOMAIN fields \cap AllowedFields
  IN IF id \notin DOMAIN st \/ keys = {}
     THEN st
     ELSE [st EXCEPT ![id] =
             [k \in DOMAIN st[id] |->
                IF k \in keys THEN fields[k]
                ELSE IF k = "updatedAt" THEN now
                ELSE st[id][k]]]

\* A deleteJobById that removes nothing.
DeleteJobByIdKeeping(st, id) == st

\* deleteJobById(id) when its statement does not fail.
DeleteJobById(st, id) == [i \in DOMAIN st \ {id} |-> st[i]]

\* ---- the order of the rows, and the calls that read ----

\* A falsy id (undefined, the empty string).
NoId == 0

\* The error of the INSERT when the primary key exists.
DuplicateIdError == <<"SqliteError: UNIQUE constraint failed: jobs.id">>
\* throw new Error("updateJob: id is required")
IdRequired == <<"updateJob: id is required">>

\* Where createJob puts the id: jobs.push(record) for a new id, the place
\* of the record it replaces otherwise (jobs[existingIndex] = record); a
\* new row of the table gets the next rowid.
OrderAfterCreate(ord, st, id) == IF id \in DOMAIN st THEN ord ELSE Append(ord, id)

\* jobs.splice(index, 1) / DELETE FROM jobs WHERE id = ?
OrderAfterDelete(ord, id) ==
  LET Other(x) == x # id IN SelectSeq(ord, Other)

\* new Date(createdAt).getTime(): the timestamp in milliseconds.
GetTime(t) == t

\* SQLite's datetime(createdAt): 'YYYY-MM-DD HH:MM:SS', the fraction of the
\* second dropped.
Datetime(t) == t \div 1000

\* The key getJobs sorts by: getTime() in the in-memory store, datetime()
\* in the ORDER BY of the SQLite store.
SortKey(backend, t) == IF backend = "memory" THEN GetTime(t) ELSE Datetime(t)

\* getJobs(): jobs.slice().sort((a, b) => getTime(b) - getTime(a)) on the
\* in-memory store; SELECT * FROM jobs ORDER BY datetime(createdAt) DESC on
\* SQLite. The orders the sort by descending key can return: where the
\* keys are equal, the rows keep their places in the in-memory store
\* (Array.prototype.sort is stable) and come in any order from SQLite,
\* which leaves the order of rows with equal keys undefined.
GetJobs(backend, st, ord) ==
  LET n == Len(ord)
      Before(p, i, j) ==
        LET a == SortKey(backend, st[ord[p[i]]].createdAt)
            b == SortKey(backend, st[ord[p[j]]].createdAt)
        IN a > b \/ (a = b /\ (backend = "memory" => p[i] < p[j]))
  IN {[i \in 1..n |-> st[ord[p[i]]]] :
        p \in {q \in Permutations(1..n) :
                 \A i, j \in 1..n : i < j => Before(q, i, j)}}

\* getJobById(id): the row (a copy of it), or undefined; as a list of at
\* most one record.
GetJobById(st, id) == IF id \in DOMAIN st THEN <<st[id]>> ELSE <<>>

\* What a call gave back: the error it raised (Null when it returned) and
\* the rows it returned.
Result(raised, rows) == [raised |-> raised, rows |-> rows]
Returned == Result(Null, <<>>)

\* The calls of the store interface, with the arguments they are made with.
CreatedAtInputs == {NoTime, 1001}
JobInputs ==
  {[id |-> id, filename |-> <<"upload-", id>>, originalname |-> <<"call.mp3">>,
    status |-> st, createdAt |-> at, emailStatus |-> "pending",
    emailSentAt |-> NoTime] :
     id \in JobIds, st \in {"", "processing"}, at \in CreatedAtInputs}
FieldInputs ==
  {<<>>,
   [id |-> NoId, createdAt |-> 7, updatedAt |-> 7],
   [status |-> "done", resultSummary |-> <<"Analysis complete.">>],
   [error |-> <<"boom">>, id |-> NoId, createdAt |-> 7]}
Call(op, id, arg) == [op |-> op, id |-> id, arg |-> arg]
Calls ==
  {Call("createJob", job.id, job) : job \in JobInputs}
  \cup {Call("updateJob", id, f) : id \in JobIds \cup {NoId}, f \in FieldInputs}
  \cup {Call(op, id, <<>>) : op \in {"getJobById", "deleteJobById"}, id \in JobIds}
  \cup {Call("getJobs", NoId, <<>>)}

\* The number of calls made on the stores.
MaxCalls == 4

\* ---- the pre-call plans beside the jobs ----

\* The id strings tried, as lists of pieces: '7' and 'precall:7'.
PlanIds == {<<"7">>, <<"precall:", "7">>}

\* `precall:${id}`, the key createInMemoryDb files a plan under.
PrecallKey(id) == <<"precall:">> \o id

\* An object of the in-memory store or a row of a table: the function that
\* made it, its id and its status ("" when it has none).
Made(by, id, status) == [by |-> by, id |-> id, status |-> status]

\* map.set(k, v) and map.delete(k)
MapSet(map, k, v) == [x \in DOMAIN map \cup {k} |-> IF x = k THEN v ELSE map[x]]
MapDelete(map, k) == [x \in DOMAIN map \ {k} |-> map[x]]

\* What a call gave back: whether it raised, the rows it returned (none for
\* undefined or null), and for a delete of a plan its return value:
\* <<changes>> from SQLite's stmt.run, <<>> for undefined.
PlanResult(raised, rows, ret) == [raised |-> raised, rows |-> rows, ret |-> ret]
PlanReturned == PlanResult(FALSE, <<>>, <<>>)
After(db, result) == [db |-> db, res |-> result]

\* jobs.findIndex((job) => job.id === id): 0 for -1.
FindIndex(db, id) ==
  LET found == {i \in DOMAIN db.jobs : db.heap[db.jobs[i]].id = id}
  IN IF found = {} THEN 0 ELSE CHOOSE i \in found : \A j \in found : i <= j

\* createInMemoryDb.createJob
MemCreateJob(db, id) ==
  LET record == Len(db.heap) + 1
      existingIndex == FindIndex(db, id)
  IN After([jobsById |-> MapSet(db.jobsById, id, record),
            jobs |-> IF existingIndex > 0
                     THEN [db.jobs EXCEPT ![existingIndex] = record]
                     ELSE Append(db.jobs, record),
            heap |-> Append(db.heap, Made("createJob", id, "processing"))],
           PlanReturned)

\* createInMemoryDb.createPrecallPlan
MemCreatePrecallPlan(db, id) ==
  LET record == Len(db.heap) + 1
  IN After([db EXCEPT !.jobsById = MapSet(db.jobsById, PrecallKey(id), record),
                      !.heap = Append(db.heap, Made("createPrecallPlan", id, ""))],
           PlanReturned)

\* createInMemoryDb.updateJob(id, {status})
MemUpdateJob(db, id, status) ==
  IF id \notin DOMAIN db.jobsById THEN After(db, PlanReturned)
  ELSE After([db EXCEPT !.heap[db.jobsById[id]].status = status], PlanReturned)

\* createInMemoryDb.getJobById
MemGetJobById(db, id) ==
  After(db, PlanResult(FALSE,
                       IF id \in DOMAIN db.jobsById
                       THEN <<db.heap[db.jobsById[id]]>> ELSE <<>>,
                       <<>>))

\* createInMemoryDb.deleteJobById
MemDeleteJobById(db, id) ==
  LET index == FindIndex(db, id)
      Kept(i) == IF i < index THEN db.jobs[i] ELSE db.jobs[i + 1]
  IN IF id \notin DOMAIN db.jobsById THEN After(db, PlanReturned)
     ELSE After([db EXCEPT !.jobsById = MapDelete(db.jobsById, id),
                           !.jobs = IF index = 0 THEN db.jobs
                                    ELSE [i \in 1..(Len(db.jobs) - 1) |-> Kept(i)]],
                PlanReturned)

\* createInMemoryDb.getPrecallPlanById
MemGetPrecallPlanById(db, id) ==
  After(db, PlanResult(FALSE,
                       IF PrecallKey(id) \in DOMAIN db.jobsById
                       THEN <<db.heap[db.jobsById[PrecallKey(id)]]>> ELSE <<>>,
                       <<>>))

\* createInMemoryDb.deletePrecallPlanById: returns undefined.
MemDeletePrecallPlanById(db, id) ==
  After([db EXCEPT !.jobsById = MapDelete(db.jobsById, PrecallKey(id))],
        PlanReturned)

\* INSERT INTO jobs / INSERT INTO precall_plans: refused by the primary key.
SqlInsert(db, table, id, row) ==
  IF id \in DOMAIN db[table] THEN After(db, PlanResult(TRUE, <<>>, <<>>))
  ELSE After([db EXCEPT ![table] = MapSet(db[table], id, row)], PlanReturned)

\* createSqliteDb.updateJob(id, {status}): UPDATE jobs ... WHERE id = @id
SqlUpdateJob(db, id, status) ==
  IF id \notin DOMAIN db.jobs THEN After(db, PlanReturned)
  ELSE After([db EXCEPT !.jobs[id].status = status], PlanReturned)

\* SELECT * FROM jobs / FROM precall_plans WHERE id = ?
SqlSelect(db, table, id) ==
  After(db, PlanResult(FALSE,
                       IF id \in DOMAIN db[table] THEN <<db[table][id]>> ELSE <<>>,
                       <<>>))

\* DELETE FROM jobs / FROM precall_plans WHERE id = ?; stmt.run's changes.
SqlDelete(db, table, id) ==
  After([db EXCEPT ![table] = MapDelete(db[table], id)],
        PlanResult(FALSE, <<>>, <<IF id \in DOMAIN db[table] THEN 1 ELSE 0>>))

\* app.delete('/precall-plans/:id') once deletePrecallPlanById has returned
\* `result` or raised: 500 from the catch, 404 for `!result ||
\* result.changes === 0`, otherwise 200 {ok: true}.
DeletePrecallPlanRoute(result) ==
  IF result.raised THEN 500
  ELSE IF result.ret = <<>> THEN 404
  ELSE IF result.ret[1] = 0 THEN 404
  ELSE 200

\* The calls made: the store functions that take an id, and the route.
PlanOps ==
  {"createJob", "createPrecallPlan", "updateJob", "getJobById", "deleteJobById",
   "getPrecallPlanById", "deletePrecallPlanById", "DELETE /precall-plans/:id"}
PlanCalls == {[op |-> op, id |-> id] : op \in PlanOps, id \in PlanIds}

\* The number of calls made on the plans and jobs of both stores.
MaxPlanCalls == 4

InitPlans ==
  /\ memDb = [jobsById |-> <<>>, jobs |-> <<>>, heap |-> <<>>]
  /\ sqlDb = [jobs |-> <<>>, precall_plans |-> <<>>]
  /\ pCall = [op |-> "none", id |-> <<>>]
  /\ pRes = [b \in Backends |-> [result |-> PlanReturned, status |-> 0]]
  /\ pCalls = 0

\* One call on the in-memory store.
MemStep(db, call) ==
  CASE call.op = "createJob" -> MemCreateJob(db, call.id)
    [] call.op = "createPrecallPlan" -> MemCreatePrecallPlan(db, call.id)
    [] call.op = "updateJob" -> MemUpdateJob(db, call.id, "done")
    [] call.op = "getJobById" -> MemGetJobById(db, call.id)
    [] call.op = "deleteJobById" -> MemDeleteJobById(db, call.id)
    [] call.op = "getPrecallPlanById" -> MemGetPrecallPlanById(db, call.id)
    [] OTHER -> MemDeletePrecallPlanById(db, call.id)

\* The same call on the SQLite store.
SqlStep(db, call) ==
  CASE call.op = "createJob" ->
         SqlInsert(db, "jobs", call.id, Made("createJob", call.id, "processing"))
    [] call.op = "createPrecallPlan" ->
         SqlInsert(db, "precall_plans", call.id,
                   Made("createPrecallPlan", call.id, ""))
    [] call.op = "updateJob" -> SqlUpdateJob(db, call.id, "done")
    [] call.op = "getJobById" -> SqlSelect(db, "jobs", call.id)
    [] call.op = "deleteJobById" -> SqlDelete(db, "jobs", call.id)
    [] call.op = "getPrecallPlanById" -> SqlSelect(db, "precall_plans", call.id)
    [] OTHER -> SqlDelete(db, "precall_plans", call.id)

\* What is answered: a status for the route, none (0) for a store call.
Answered(call, result) ==
  IF call.op = "DELETE /precall-plans/:id" THEN DeletePrecallPlanRoute(result)
  ELSE 0

\* The same call made on the in-memory store and on the SQLite store.
PlanCall(call) ==
  /\ pCalls < MaxPlanCalls
  /\ LET m == MemStep(memDb, call)
         q == SqlStep(sqlDb, call)
     IN /\ memDb' = m.db
        /\ sqlDb' = q.db
        /\ pRes' = [b \in Backends |->
                      LET result == IF b = "memory" THEN m.res ELSE q.res
                      IN [result |-> result, status |-> Answered(call, result)]]
  /\ pCall' = call
  /\ pCalls' = pCalls + 1
  /\ UNCHANGED <<retryVars, jobVars, dropboxVars, webhookVars,
                 sTbl, sOrd, sCall, sRes, sCalls>>

InitStore ==
  /\ InitPlans
  /\ sTbl = [b \in Backends |-> <<>>]
  /\ sOrd = [b \in Backends |-> <<>>]
  /\ sCall = Call("none", NoId, <<>>)
  /\ sRes = [b \in Backends |-> Returned]
  /\ sCalls = 0

\* One call of backend b's interface at the clock reading `now`: the table
\* and the order it leaves, and its result; `rows` is what a getJobs returns.
StoreStep(b, call, now, rows) ==
  LET st == sTbl[b]
      ord == sOrd[b]
      Same(result) == [tbl |-> st, ord |-> ord, res |-> result]
  IN CASE call.op = "createJob" ->
            IF CreateJobRefusedIn(b, st, call.arg) THEN Same(Result(DuplicateIdError, <<>>))
            ELSE [tbl |-> CreateJobIn(b, st, call.arg, now),
                  ord |-> OrderAfterCreate(ord, st, call.id),
                  res |-> Returned]
       [] call.op = "updateJob" ->
            IF call.id = NoId THEN Same(Result(IdRequired, <<>>))
            ELSE [tbl |-> UpdateJob(st, call.id, call.arg, now),
                  ord |-> ord, res |-> Returned]
       [] call.op = "getJobById" -> Same(Result(Null, GetJobById(st, call.id)))
       [] call.op = "getJobs" -> Same(Result(Null, rows))
       [] call.op = "deleteJobById" ->
            [tbl |-> DeleteJobById(st, call.id),
             ord |-> OrderAfterDelete(ord, call.id),
             res |-> Returned]

\* The same call made on the SQLite store and on the in-memory store.
StoreCall(call) ==
  /\ sCalls < MaxCalls
  /\ \E rs \in GetJobs("sqlite", sTbl["sqlite"], sOrd["sqlite"]),
        rm \in GetJobs("memory", sTbl["memory"], sOrd["memory"]) :
       LET after == [b \in Backends |->
                       StoreStep(b, call, clock, IF b = "sqlite" THEN rs ELSE rm)]
       IN /\ sTbl' = [b \in Backends |-> after[b].tbl]
          /\ sOrd' = [b \in Backends |-> after[b].ord]
          /\ sRes' = [b \in Backends |-> after[b].res]
  /\ sCall' = call
  /\ sCalls' = sCalls + 1
  /\ UNCHANGED <<retryVars, jobVars, dropboxVars, webhookVars, planVars>>

(***************************************************************************)
(* runAnalysisForJob(jobId), with POST /process-file and DELETE /jobs/:id  *)
(***************************************************************************)

\* The errors a stage (transcription, chat completion, email body) may raise:
\* a transient network error, and an error value that has no string message.
TransientError == <<"ECONNRESET">>
StageErrors == {TransientError, Null}

\* err && typeof err.message === 'string' ? err.message : 'Unknown error'
SafeMessage(err) == IF err = Null THEN <<"Unknown error">> ELSE err

\* The texts of TOP_PRIORITY tried: a usable one and a missing/blank one.
TopPriorities == {<<"Automate follow-ups">>, Null}

AnalysisComplete == <<"Analysis complete.">>
InvalidJsonMessage == <<"Analysis", " failed: ", "invalid JSON from model.">>
FailurePrefix == <<"Analysis", " failed: ">>
EmptyTranscriptMessage == <<"Empty transcript from OpenAI Whisper">>
EmptyAnalysisMessage == <<"Empty analysis response from OpenAI Chat">>
NullAnalysisMessage == <<"Cannot read properties of null (reading 'TOP_PRIORITY')">>
CopyFailedMessage == <<"ENOSPC: no space left on device, copyfile">>
EmailReturnedFalse == <<"Email failed: transporter returned false.">>
EmailFailedPrefix == <<"Email failed: ">>

\* One entry of a trace: a stage operation invoked ("invoke"), how it
\* settled ("outcome", out being the kind of result and val the error raised),
\* a store call ("update" with its fields in val, "get"; out is "ok" or
\* "raise"), an ingest event appended ("ingest").
Event(ev, what, out, val) == [ev |-> ev, what |-> what, out |-> out, val |-> val]

Invoked(what) == Event("invoke", what, "ok", Null)

StoreOut(ok) == IF ok THEN "ok" ELSE "raise"

\* A run of the pipeline in the middle of a step: the table and the trace.
Run(st, tr) == [store |-> st, trace |-> tr, pc |-> "running"]

Log(run, e) == [run EXCEPT !.trace = Append(run.trace, e)]

\* An updateJob call made by the pipeline: applied when ok, raising when not.
TryUpdate(run, id, fields, ok) ==
  Log([run EXCEPT !.store = IF ok THEN UpdateJob(run.store, id, fields, clock)
                            ELSE run.store],
      Event("update", "store", StoreOut(ok), fields))

\* A pre-flight write that leaves the status as it is.
PreflightFieldsSummaryOnly(message) ==
  [resultSummary |-> message, error |-> message, emailStatus |-> "error"]

\* The fields the pre-flight checks write: status error, the message as both
\* summary and error.
PreflightFields(message) ==
  [status |-> "error", resultSummary |-> message, error |-> message,
   emailStatus |-> "error"]

\* A catch-all that labels the summary with nothing.
FailureFieldsBare(message) ==
  [status |-> "error", resultSummary |-> message, error |-> message,
   emailStatus |-> "error"]

\* The fields the outer catch (err) writes.
FailureFields(message) ==
  [status |-> "error", resultSummary |-> FailurePrefix \o message,
   error |-> message, emailStatus |-> "error"]

\* An outer catch that writes the failure and goes on to the notification.
OuterCatchGoingOn(run, id, message, ok) ==
  [Log(TryUpdate(run, id, FailureFields(message), ok), Invoked("notify")) EXCEPT
     !.pc = "emailing"]

\* The outer catch (err) of runAnalysisForJob, then finally: the job is
\* written as failed; if that update raises too, the promise rejects.
OuterCatch(run, id, message, ok) ==
  [TryUpdate(run, id, FailureFields(message), ok) EXCEPT
     !.pc = IF ok THEN "returned" ELSE "rejected"]

\* catch (emailErr) around the email block: records the email error; an
\* update that raises here lands in the outer catch.
InnerCatch(run, id, message, ok2, ok3) ==
  LET r == TryUpdate(run, id, [emailStatus |-> "error", error |-> message], ok2)
  IN IF ok2 THEN [r EXCEPT !.pc = "returned"]
     ELSE OuterCatch(r, id, StoreError, ok3)

\* The end of a step of the pipeline run of request r: the run's table,
\* trace and pc become the state.
Commit(r, run) ==
  /\ store' = run.store
  /\ jTrace' = [jTrace EXCEPT ![r] = run.trace]
  /\ pc' = [pc EXCEPT ![r] = run.pc]

InitJob ==
  /\ cfg \in [backend : Backends, openai : BOOLEAN, recipient : BOOLEAN]
  /\ store = <<>>
  /\ pc = [r \in Requests |-> "none"]
  /\ fileOnDisk = [r \in Requests |-> FALSE]
  /\ delPending = {}
  /\ jTrace = [r \in Requests |-> <<>>]
  /\ clock = 1
  /\ jobIdOf = [r \in Requests |-> 0]
  /\ issuedAt = [id \in JobIds |-> 0]
  /\ res = [r \in Requests |-> 0]

\* generateJobId() at the clock reading `now`: the milliseconds followed by
\* a random suffix of three digits. An id that has been generated in an
\* earlier millisecond cannot come again; one generated in this millisecond
\* comes again when the suffix repeats.
GenerateJobId(now) == {id \in JobIds : issuedAt[id] \in {0, now}}

\* The file of the upload that job record `job` names.
FileOf(job) == job.filename[2]

\* What POST /process-file does with the outcome of createJob, once
\* createJob has raised whether or not a run was dispatched.
AfterCreateDispatching(created) ==
  [status |-> IF created THEN 200 ELSE 500, pc |-> "queued"]

\* What POST /process-file does with the outcome of createJob: 200 with the
\* jobId and then setImmediate(() => runAnalysisForJob(job.id)), or 500 from
\* the catch and nothing more.
AfterCreate(created) ==
  IF created THEN [status |-> 200, pc |-> "queued"]
  ELSE [status |-> 500, pc |-> "none"]

\* POST /process-file as request r, the generated id being `id`. Without a
\* file the answer is 400. With one, multer has put the upload on disk; the
\* job is created as processing / pending; on success the response is sent
\* and the pipeline queued with setImmediate. When createJob raises, the
\* answer is 500 and nothing is queued.
ProcessFile(r, id) ==
  /\ res[r] = 0
  /\ id \in GenerateJobId(clock)
  /\ LET job == [id |-> id, filename |-> <<"upload-", r>>,
                 originalname |-> <<"call.mp3">>, status |-> "processing",
                 createdAt |-> clock, emailStatus |-> "pending",
                 emailSentAt |-> NoTime]
     IN \E file \in BOOLEAN, ok \in StoreOutcomes :
          LET created == ok /\ ~CreateJobRefused(store, job)
              then == AfterCreate(created)
          IN IF ~file
             THEN /\ res' = [res EXCEPT ![r] = 400]
                  /\ UNCHANGED <<cfg, store, pc, fileOnDisk, delPending, jTrace,
                                 clock, jobIdOf, issuedAt>>
             ELSE /\ res' = [res EXCEPT ![r] = then.status]
                  /\ pc' = [pc EXCEPT ![r] = then.pc]
                  /\ IF created
                     THEN /\ store' = CreateJob(store, job, clock)
                          /\ fileOnDisk' = [fileOnDisk EXCEPT ![r] = TRUE]
                          /\ jobIdOf' = [jobIdOf EXCEPT ![r] = id]
                          /\ issuedAt' = [issuedAt EXCEPT ![id] = clock]
                     ELSE UNCHANGED <<store, fileOnDisk, jobIdOf, issuedAt>>
                  /\ UNCHANGED <<cfg, delPending, jTrace, clock>>
  /\ UNCHANGED <<retryVars, dropboxVars, webhookVars, storeVars>>

\* runAnalysisForJob from its entry to the first await: the pre-flight
\* checks, the copy of the audio file, and the transcription request.
RunStart(r) ==
  /\ pc[r] = "queued"
  /\ \E okGet \in StoreOutcomes, okUpd \in StoreOutcomes, okCopy \in BOOLEAN :
       LET id == jobIdOf[r]
           run == Run(store, jTrace[r])
           preflight(message) ==
             [TryUpdate(run, id, PreflightFields(message), okUpd) EXCEPT
                !.pc = IF okUpd THEN "returned" ELSE "rejected"]
       IN Commit(r,
            IF ~okGet
              \* getJobById raises outside every try: the promise rejects
              THEN [Log(run, Event("get", "store", "raise", Null)) EXCEPT
                      !.pc = "rejected"]
            ELSE IF id \notin DOMAIN store
              \* the update of the missing record sits in its own try/catch
              THEN [TryUpdate(run, id,
                              PreflightFields(<<"Job not found for processing">>),
                              okUpd) EXCEPT !.pc = "returned"]
            ELSE IF ~cfg.openai
              THEN preflight(<<"OpenAI client not configured. Set OPENAI_API_KEY.">>)
            ELSE IF store[id].filename = Null
              THEN preflight(<<"Missing audio filename for job.">>)
            ELSE IF ~fileOnDisk[FileOf(store[id])]
              THEN preflight(<<"Audio file not found on disk for job.">>)
            ELSE IF ~okCopy
              THEN OuterCatch(run, id, CopyFailedMessage, okUpd)
            ELSE [Log(run, Invoked("transcribe")) EXCEPT !.pc = "transcribing"])
  /\ UNCHANGED <<cfg, fileOnDisk, delPending, clock, jobIdOf, issuedAt, res, retryVars,
                 dropboxVars, webhookVars, storeVars>>

\* A missing check of the transcript.
TranscriptUsableAlways(out) == TRUE

\* if (!transcriptText) throw new Error('Empty transcript from OpenAI Whisper')
TranscriptUsable(out) == out = "text"

\* The transcription request settles. out is "text", "empty" or "throw".
TranscribeReturn(r, out, e) ==
  /\ pc[r] = "transcribing"
  /\ \E okUpd \in StoreOutcomes :
       LET id == jobIdOf[r]
           run == Log(Run(store, jTrace[r]),
                      Event("outcome", "transcribe", out,
                            IF out = "throw" THEN e ELSE Null))
       IN Commit(r,
            IF out = "throw" THEN OuterCatch(run, id, SafeMessage(e), okUpd)
            ELSE IF ~TranscriptUsable(out)
              THEN OuterCatch(run, id, EmptyTranscriptMessage, okUpd)
            ELSE [Log(run, Invoked("analyze")) EXCEPT !.pc = "analyzing"])
  /\ UNCHANGED <<cfg, fileOnDisk, delPending, clock, jobIdOf, issuedAt, res, retryVars,
                 dropboxVars, webhookVars, storeVars>>

\* An email block that does not look for the job's row.
RowFoundAlways(st, id) == TRUE

\* const row = getJobById(jobId); if (row) { ... }
RowFound(st, id) == id \in DOMAIN st

\* The chat completion settles. out is "object" (JSON with TOP_PRIORITY top),
\* "null" (the JSON text null), "badjson", "empty" or "throw". From the
\* parsed analysis the run goes on, without suspending, to the update that
\* writes done and to the call of sendJobSummaryEmail.
AnalyzeReturn(r, out, top, e) ==
  /\ pc[r] = "analyzing"
  /\ \E ok1 \in StoreOutcomes, ok2 \in StoreOutcomes, ok3 \in StoreOutcomes,
        okGet \in StoreOutcomes :
       LET id == jobIdOf[r]
           run == Log(Run(store, jTrace[r]),
                      Event("outcome", "analyze", out,
                            IF out = "throw" THEN e ELSE Null))
           resultSummary == IF top # Null THEN top ELSE AnalysisComplete
           done == TryUpdate(run, id,
                     [status |-> "done", resultSummary |-> resultSummary,
                      analysisJson |-> <<"json", top>>, error |-> Null], ok1)
           invalid == TryUpdate(run, id, PreflightFields(InvalidJsonMessage), ok1)
       IN Commit(r,
            CASE out = "throw" -> OuterCatch(run, id, SafeMessage(e), ok3)
              [] out = "empty" -> OuterCatch(run, id, EmptyAnalysisMessage, ok3)
              [] out = "null" -> OuterCatch(run, id, NullAnalysisMessage, ok3)
              [] out = "badjson" ->
                   IF ok1 THEN [invalid EXCEPT !.pc = "returned"]
                   ELSE OuterCatch(invalid, id, StoreError, ok3)
              [] out = "object" ->
                   IF ~ok1 THEN OuterCatch(done, id, StoreError, ok3)
                   ELSE IF ~okGet
                     THEN InnerCatch(Log(done, Event("get", "store", "raise", Null)),
                                     id, StoreError, ok2, ok3)
                   ELSE IF ~RowFound(done.store, id)
                     THEN [done EXCEPT !.pc = "returned"]
                   ELSE [Log(done, Invoked("notify")) EXCEPT !.pc = "emailing"])
  /\ UNCHANGED <<cfg, fileOnDisk, delPending, clock, jobIdOf, issuedAt, res, retryVars,
                 dropboxVars, webhookVars, storeVars>>

\* sendJobSummaryEmail(job), settled: "skipped" (false without touching the
\* transport, sender or recipient not being configured), or else "throw" (the
\* subject or body could not be built), "sent" (transporter.sendMail was
\* invoked and resolved: true) or "failed" (it was invoked and rejected:
\* false).
SendJobSummaryEmail(run, out, e) ==
  LET settled == Event("outcome", "notify", out, IF out = "throw" THEN e ELSE Null)
  IN IF out \in {"sent", "failed"}
     THEN Log(Log(run, Invoked("mail")), settled)
     ELSE Log(run, settled)

\* updateJob(jobId, { emailStatus, emailSentAt, error: emailErrorMessage })
EmailFields(emailStatus, emailSentAt, message) ==
  [emailStatus |-> emailStatus, emailSentAt |-> emailSentAt, error |-> message]

\* The call of sendJobSummaryEmail settles and its outcome is recorded.
EmailReturn(r, out, e) ==
  /\ pc[r] = "emailing"
  /\ (out = "skipped") = ~cfg.recipient
  /\ \E ok1 \in StoreOutcomes, ok2 \in StoreOutcomes, ok3 \in StoreOutcomes :
       LET id == jobIdOf[r]
           run == SendJobSummaryEmail(Run(store, jTrace[r]), out, e)
           fields ==
             CASE out = "sent" -> EmailFields("sent", clock, Null)
               [] out = "throw" ->
                    EmailFields("error", NoTime, EmailFailedPrefix \o SafeMessage(e))
               [] OTHER -> EmailFields("error", NoTime, EmailReturnedFalse)
           upd == TryUpdate(run, id, fields, ok1)
       IN Commit(r,
            IF ok1 THEN [upd EXCEPT !.pc = "returned"]
            ELSE InnerCatch(upd, id, StoreError, ok2, ok3))
  /\ UNCHANGED <<cfg, fileOnDisk, delPending, clock, jobIdOf, issuedAt, res, retryVars,
                 dropboxVars, webhookVars, storeVars>>

\* The last clock reading tried.
MaxClock == 2

\* A millisecond passes.
Tick ==
  /\ clock < MaxClock
  /\ clock' = clock + 1
  /\ UNCHANGED <<cfg, store, pc, fileOnDisk, delPending, jTrace, jobIdOf, issuedAt, res,
                 retryVars, dropboxVars, webhookVars, storeVars>>

\* DELETE /jobs/:id up to its await of unlink: 404 when the job is absent,
\* otherwise the audio file is removed.
DeleteBegin(id) ==
  /\ id \in DOMAIN store
  /\ id \notin delPending
  /\ fileOnDisk' = [fileOnDisk EXCEPT ![FileOf(store[id])] = FALSE]
  /\ delPending' = delPending \cup {id}
  /\ UNCHANGED <<cfg, store, pc, jTrace, clock, jobIdOf, issuedAt, res, retryVars,
                 dropboxVars, webhookVars, storeVars>>

\* DELETE /jobs/:id after the unlink: deleteJobById, answering 500 when it
\* raises.
DeleteFinish(id) ==
  /\ id \in delPending
  /\ delPending' = delPending \ {id}
  /\ \E ok \in StoreOutcomes :
       store' = IF ok THEN DeleteJobById(store, id) ELSE store
  /\ UNCHANGED <<cfg, pc, fileOnDisk, jTrace, clock, jobIdOf, issuedAt, res, retryVars,
                 dropboxVars, webhookVars, storeVars>>

(***************************************************************************)
(* processDropboxAudioEvent(event)                                         *)
(***************************************************************************)

\* The stages, in the order the workflow awaits them.
DropboxStages ==
  <<"downloadFile", "transcribeAudio", "summarizeCall", "createSummaryDoc",
    "appendRecordingRow">>

InitDropbox ==
  /\ dPc = "start"
  /\ dStage = 0
  /\ dErr = Null
  /\ dTrace = <<>>

\* Entry: an event without path_lower is refused before the try block (no
\* ingest event); otherwise the first stage is invoked.
DropboxStart(valid) ==
  /\ dPc = "start"
  /\ IF valid
     THEN /\ dPc' = "await"
          /\ dStage' = 1
          /\ dTrace' = Append(dTrace, Invoked(DropboxStages[1]))
          /\ dErr' = dErr
     ELSE /\ dPc' = "thrown"
          /\ dErr' = <<"Invalid Dropbox event payload">>
          /\ UNCHANGED <<dStage, dTrace>>
  /\ UNCHANGED <<retryVars, jobVars, webhookVars, storeVars>>

\* The TypeError of building appendRecordingRow's arguments from insights
\* that are not shaped as the schema says (pain_points not an array, an
\* automation_opportunities item that is null).
MalformedInsights == <<"(insights.pain_points || []).join is not a function">>

\* A catch (err) that rethrows without logging.
DropboxCatchSilent(tr, err) == [trace |-> tr, thrown |-> err]

\* catch (err): the failure event with err.message is appended, err is
\* thrown again.
DropboxCatch(tr, err) ==
  [trace |-> Append(tr, Event("ingest", "log", "failure", err)), thrown |-> err]

\* The awaited stage resolves: the next stage is invoked, or, after the last,
\* the success event is appended and the result returned. The arguments of
\* appendRecordingRow are computed from the insights, which throws when
\* they are not `shaped` as expected; this lands in catch (err) too.
DropboxStageOk ==
  /\ dPc = "await"
  /\ \E shaped \in BOOLEAN :
       IF dStage = Len(DropboxStages)
       THEN /\ dPc' = "returned"
            /\ dTrace' = Append(dTrace, Event("ingest", "log", "success", Null))
            /\ UNCHANGED <<dStage, dErr>>
       ELSE IF DropboxStages[dStage + 1] = "appendRecordingRow" /\ ~shaped
       THEN LET c == DropboxCatch(dTrace, MalformedInsights)
            IN /\ dPc' = "thrown"
               /\ dErr' = c.thrown
               /\ dTrace' = c.trace
               /\ UNCHANGED dStage
       ELSE /\ dStage' = dStage + 1
            /\ dTrace' = Append(dTrace, Invoked(DropboxStages[dStage + 1]))
            /\ UNCHANGED <<dPc, dErr>>
  /\ UNCHANGED <<retryVars, jobVars, webhookVars, storeVars>>

\* The awaited stage rejects with e: catch (err) appends the failure event
\* with err.message and rethrows err.
DropboxStageFail(e) ==
  /\ dPc = "await"
  /\ LET c == DropboxCatch(dTrace, e)
     IN /\ dPc' = "thrown"
        /\ dErr' = c.thrown
        /\ dTrace' = c.trace
  /\ UNCHANGED <<dStage, retryVars, jobVars, webhookVars, storeVars>>

(***************************************************************************)
(* POST /webhooks/teams, downloadTranscript, postToSlack, appendIngestEvent *)
(***************************************************************************)

\* const { retries = 2, ... } of downloadTranscript
FetchRetries == 2

\* const { retries = 3, ... } of postToSlack
SlackRetries == 3

\* What is exercised: the webhook, or one of the clients called directly.
Entries == {"webhook", "downloadTranscript", "postToSlack"}

\* transcript_url (the url of downloadTranscript): absent, not a string, the
\* empty string, a "mock:..." string, any other string.
TargetKinds == {"missing", "nonstring", "empty", "mock", "real"}

\* SLACK_WEBHOOK_URL (the webhookUrl of postToSlack): unset or empty,
\* "mock:..." other than "mock:fail...", "mock:fail...", any other string.
SlackKinds == {"unset", "mock", "mockfail", "real"}

\* A check that lets every target through.
WellFormedAlways(target) == TRUE

\* transcriptUrl && typeof transcriptUrl === 'string'
WellFormed(target) == target \in {"mock", "real"}

NetworkDisabledDownload == <<"Network disabled. Use mock: URLs in tests.">>
NetworkDisabledPost == <<"Network disabled. Mock postToSlack in tests.">>
MockSlackFailure == <<"Mock Slack failure">>
HttpError == <<"HTTP 503">>
InvalidUrl == <<"Invalid URL">>
MissingSlackUrl == <<"Missing Slack webhook URL">>

\* const summary = summarizeTranscript(transcript): a text, passed on as it
\* is to the event and to Slack.
Summary == <<"summary">>

\* res.status(status).json({...})
Response(status, error, dryRun) ==
  [status |-> status, error |-> error, dryRun |-> dryRun]

NoResponse == Response(0, "", FALSE)

\* The answer of the handler's catch-all.
InternalError == Response(500, "internal_error", FALSE)

\* A handler that asks for the network before it looks at DRY_RUN.
InboundDecisionNetworkFirst(target, dryRun, allowNetwork) ==
  IF ~WellFormed(target) THEN "invalid_input"
  ELSE IF target # "mock" /\ ~allowNetwork THEN "network_disabled"
  ELSE IF dryRun THEN "dry_run"
  ELSE "proceed"

\* A network gate that does not let mock: targets through.
InboundDecisionNoMock(target, dryRun, allowNetwork) ==
  IF ~WellFormed(target) THEN "invalid_input"
  ELSE IF dryRun THEN "dry_run"
  ELSE IF ~allowNetwork THEN "network_disabled"
  ELSE "proceed"

\* The checks of the handler before the transcript is downloaded, in the
\* order of the code.
InboundDecision(target, dryRun, allowNetwork) ==
  IF ~WellFormed(target) THEN "invalid_input"
  ELSE IF dryRun THEN "dry_run"
  ELSE IF ~(target = "mock") /\ ~allowNetwork THEN "network_disabled"
  ELSE "proceed"

\* A handler that leaves the missing webhook to postToSlack.
OutboundDecisionUnchecked(slack, allowNetwork) ==
  IF slack \notin {"mock", "mockfail"} /\ ~allowNetwork THEN "network_disabled"
  ELSE "post"

\* The checks of the handler between the summary and the Slack post.
OutboundDecision(slack, allowNetwork) ==
  IF slack = "unset" THEN "missing_slack_webhook"
  ELSE IF slack \notin {"mock", "mockfail"} /\ ~allowNetwork THEN "network_disabled"
  ELSE "post"

\* One invocation of a retried function: whether it issued an HTTP request,
\* and the error it rejected with (Null: it resolved).
Did(http, err) == [http |-> http, err |-> err]

\* A download that does not ask whether the network is allowed.
DownloadAttemptUngated(url, allowNetwork) ==
  IF url = "mock" THEN {Did(FALSE, Null)}
  ELSE {Did(TRUE, Null), Did(TRUE, HttpError)}

\* The function downloadTranscript retries.
DownloadAttempt(url, allowNetwork) ==
  IF url = "mock" THEN {Did(FALSE, Null)}
  ELSE IF ~allowNetwork THEN {Did(FALSE, NetworkDisabledDownload)}
  ELSE {Did(TRUE, Null), Did(TRUE, HttpError)}

\* The function postToSlack retries.
PostAttempt(webhookUrl, allowNetwork) ==
  IF webhookUrl = "mockfail" THEN {Did(FALSE, MockSlackFailure)}
  ELSE IF webhookUrl = "mock" THEN {Did(FALSE, Null)}
  ELSE IF ~allowNetwork THEN {Did(FALSE, NetworkDisabledPost)}
  ELSE {Did(TRUE, Null), Did(TRUE, HttpError)}

\* Everything an invocation may do.
Attempts ==
  {Did(h, e) : h \in BOOLEAN,
               e \in {Null, HttpError, MockSlackFailure, NetworkDisabledDownload,
                      NetworkDisabledPost}}

\* A post that is retried under the policy of the download.
RetriesOfDownloadOnly(op) == FetchRetries

\* The retry budget each client passes to withExponentialBackoff (the
\* handler overrides baseMs only).
RetriesOf(op) == IF op = "download" THEN FetchRetries ELSE SlackRetries

\* A logger that lets the error of the write escape.
AppendIngestEventRaising(log, event, ok) ==
  [log |-> IF ok THEN Append(log, event) ELSE log, raised |-> ~ok]

\* appendIngestEvent(event): mkdirSync and appendFileSync succeed (ok) or one
\* of them throws; the catch swallows the error.
AppendIngestEvent(log, event, ok) ==
  [log |-> IF ok THEN Append(log, event) ELSE log, raised |-> FALSE]

\* The event the handler appends on the path named `kind`.
IngestEvent(kind, err) == Event("ingest", kind, "appended", err)

InitWebhook ==
  /\ wReq \in [entry : Entries, target : TargetKinds, dryRun : BOOLEAN,
              allowNetwork : BOOLEAN, slack : SlackKinds]
  /\ wPc = "idle"
  /\ wAttempt = 0
  /\ wTrace = <<>>
  /\ wResp = NoResponse
  /\ wErr = Null
  /\ ingestLog = <<>>

\* The handler answers without appending an event; err is what its
\* catch-all caught, if that is why.
Reply(tr, resp, err) ==
  /\ wTrace' = tr
  /\ wResp' = resp
  /\ wErr' = err
  /\ wPc' = "responded"
  /\ UNCHANGED <<wAttempt, ingestLog>>

\* The handler appends an event and answers; an exception of the logger
\* would land in the handler's catch-all.
Answer(tr, event, okWrite, resp) ==
  LET a == AppendIngestEvent(ingestLog, event, okWrite)
  IN /\ ingestLog' = a.log
     /\ wTrace' = Append(tr, event)
     /\ wResp' = IF a.raised THEN InternalError ELSE resp
     /\ wPc' = "responded"
     /\ UNCHANGED <<wAttempt, wErr>>

\* A retried operation begins: attempt = 0.
Begin(tr, op) ==
  /\ wPc' = op
  /\ wAttempt' = 0
  /\ wTrace' = tr
  /\ UNCHANGED <<wResp, wErr, ingestLog>>

\* The client call settles.
Settle(tr, how, err) ==
  /\ wPc' = how
  /\ wErr' = err
  /\ wTrace' = tr
  /\ UNCHANGED <<wAttempt, wResp, ingestLog>>

\* POST /webhooks/teams from the request to the first await.
WebhookReceive ==
  /\ wPc = "idle"
  /\ wReq.entry = "webhook"
  /\ \E okWrite \in BOOLEAN :
       LET d == InboundDecision(wReq.target, wReq.dryRun, wReq.allowNetwork)
       IN CASE d = "invalid_input" ->
                 Reply(wTrace, Response(400, "invalid_input", FALSE), Null)
            [] d = "dry_run" ->
                 Answer(wTrace, IngestEvent("dryRun", Null), okWrite,
                        Response(200, "", TRUE))
            [] d = "network_disabled" ->
                 Answer(wTrace, IngestEvent("network_disabled", Null), okWrite,
                        Response(400, "network_disabled", FALSE))
            [] d = "proceed" -> Begin(wTrace, "download")
  /\ UNCHANGED <<wReq, retryVars, jobVars, dropboxVars, storeVars>>

\* downloadTranscript(url) or postToSlack(webhookUrl, payload) called on its
\* own: the argument check, then the retried function.
ClientCall ==
  /\ wPc = "idle"
  /\ wReq.entry # "webhook"
  /\ IF wReq.entry = "downloadTranscript"
     THEN IF WellFormed(wReq.target) THEN Begin(wTrace, "download")
          ELSE Settle(wTrace, "rejected", InvalidUrl)
     ELSE IF wReq.slack # "unset" THEN Begin(wTrace, "post")
          ELSE Settle(wTrace, "rejected", MissingSlackUrl)
  /\ UNCHANGED <<wReq, retryVars, jobVars, dropboxVars, storeVars>>

\* One turn of withExponentialBackoff's loop in a client: the function is
\* invoked and does `did`. When it rejects and the budget is not spent, the
\* loop sleeps and goes round; otherwise the client settles and its caller
\* goes on to its next await or to its end.
Attempt(did) ==
  /\ wPc \in {"download", "post"}
  /\ did \in (IF wPc = "download"
              THEN DownloadAttempt(wReq.target, wReq.allowNetwork)
              ELSE PostAttempt(wReq.slack, wReq.allowNetwork))
  /\ \E okWrite \in BOOLEAN :
       LET sent == IF did.http
                   THEN Append(wTrace, Event("http", wPc, "sent", Null))
                   ELSE wTrace
           tr == Append(sent, Event("attempt", wPc,
                                    IF did.err = Null THEN "ok" ELSE "fail",
                                    did.err))
           summary == Summary
           out == OutboundDecision(wReq.slack, wReq.allowNetwork)
       IN IF did.err # Null /\ ~BudgetExhausted(wAttempt, RetriesOf(wPc))
          THEN /\ wAttempt' = wAttempt + 1
               /\ wTrace' = tr
               /\ UNCHANGED <<wPc, wResp, wErr, ingestLog>>
          ELSE IF wReq.entry # "webhook"
            THEN IF did.err # Null THEN Settle(tr, "rejected", Rethrow(did.err))
                 ELSE Settle(tr, "resolved", Null)
          ELSE IF wPc = "download"
            THEN IF did.err # Null
                   \* the rejection reaches the handler's catch (e)
                   THEN Reply(tr, InternalError, Rethrow(did.err))
                 ELSE CASE out = "missing_slack_webhook" ->
                             Answer(tr, IngestEvent("missing_slack_webhook", summary),
                                    okWrite,
                                    Response(400, "missing_slack_webhook", FALSE))
                        [] out = "network_disabled" ->
                             Answer(tr, IngestEvent("network_disabled", summary),
                                    okWrite,
                                    Response(400, "network_disabled", FALSE))
                        [] out = "post" -> Begin(tr, "post")
          ELSE IF did.err # Null
            THEN Answer(tr, IngestEvent("slack_failed", Rethrow(did.err)), okWrite,
                        Response(502, "slack_post_failed", FALSE))
          ELSE Answer(tr, IngestEvent("slack_ok", summary), okWrite,
                      Response(200, "", FALSE))
  /\ UNCHANGED <<wReq, retryVars, jobVars, dropboxVars, storeVars>>

(***************************************************************************)
(* Specifications                                                          *)
(***************************************************************************)

\* const { retries = 3, baseMs = 100, factor = 2 } of withExponentialBackoff
DefaultOptions == [retries |-> 3, baseMs |-> 100, factor |-> <<2, 1>>]

\* The server as configured by the test setup: in-memory store, no OpenAI
\* key, no mail settings.
DefaultConfig == [backend |-> "memory", openai |-> FALSE, recipient |-> FALSE]

\* The request of the "handles success flow" test.
DefaultRequest ==
  [entry |-> "webhook", target |-> "mock", dryRun |-> FALSE,
   allowNetwork |-> FALSE, slack |-> "mock"]

\* The ways the awaited operations settle, and what comes with each: the
\* error raised, the TOP_PRIORITY of the parsed analysis.
TranscribeOutcomes == {"text", "empty", "throw"}
AnalyzeOutcomes == {"object", "null", "badjson", "empty", "throw"}
EmailOutcomes == {"skipped", "sent", "failed", "throw"}
Raised(out) == IF out = "throw" THEN StageErrors ELSE {Null}
Parsed(out) == IF out = "object" THEN TopPriorities ELSE {Null}

\* One call of withExponentialBackoff, for every choice of its options.
InitRetrySpec ==
  /\ InitRetry /\ InitJob /\ InitDropbox /\ InitWebhook /\ InitStore
  /\ cfg = DefaultConfig
  /\ wReq = DefaultRequest
NextRetry ==
  \/ RetryInvokeOk
  \/ \E e \in Errors : RetryInvokeFail(e)
  \/ RetryCatch
  \/ RetryWake
SpecRetry == InitRetrySpec /\ [][NextRetry]_vars

\* The server's job pipeline, for every configuration, when the uploads get
\* different ids (as they do unless two of them arrive in one millisecond and
\* draw the same suffix: SpecIngest has those); jobs may be deleted at any
\* time.
InitPipeline ==
  /\ InitRetry /\ InitJob /\ InitDropbox /\ InitWebhook /\ InitStore
  /\ rOpts = DefaultOptions
  /\ wReq = DefaultRequest
NextPipeline ==
  \/ \E r \in Requests : pc[r] = "none" /\ ProcessFile(r, r)
  \/ \E r \in Requests : RunStart(r)
  \/ \E r \in Requests, out \in TranscribeOutcomes :
       \E e \in Raised(out) : TranscribeReturn(r, out, e)
  \/ \E r \in Requests, out \in AnalyzeOutcomes :
       \E top \in Parsed(out), e \in Raised(out) : AnalyzeReturn(r, out, top, e)
  \/ \E r \in Requests, out \in EmailOutcomes :
       \E e \in Raised(out) : EmailReturn(r, out, e)
  \/ \E id \in JobIds : DeleteBegin(id)
  \/ \E id \in JobIds : DeleteFinish(id)
SpecPipeline == InitPipeline /\ [][NextPipeline]_vars

\* Both pipelines side by side: one upload to the server and one run of the
\* Dropbox workflow, their steps interleaved.
NextStages ==
  \/ pc[1] = "none" /\ ProcessFile(1, 1)
  \/ RunStart(1)
  \/ \E out \in TranscribeOutcomes :
       \E e \in Raised(out) : TranscribeReturn(1, out, e)
  \/ \E out \in AnalyzeOutcomes :
       \E top \in Parsed(out), e \in Raised(out) : AnalyzeReturn(1, out, top, e)
  \/ \E out \in EmailOutcomes :
       \E e \in Raised(out) : EmailReturn(1, out, e)
  \/ DeleteBegin(1)
  \/ DeleteFinish(1)
  \/ \E valid \in BOOLEAN : DropboxStart(valid)
  \/ DropboxStageOk
  \/ \E e \in Errors : DropboxStageFail(e)
SpecStages == InitPipeline /\ [][NextStages]_vars

\* setImmediate runs the dispatched runAnalysisForJob of request r, and
\* every external call the run awaits (the transcription, the chat
\* completion, the email) eventually resolves or rejects.
RunProgress(r) ==
  /\ WF_vars(RunStart(r))
  /\ WF_vars(\E out \in TranscribeOutcomes :
               \E e \in Raised(out) : TranscribeReturn(r, out, e))
  /\ WF_vars(\E out \in AnalyzeOutcomes :
               \E top \in Parsed(out), e \in Raised(out) :
                 AnalyzeReturn(r, out, top, e))
  /\ WF_vars(\E out \in EmailOutcomes :
               \E e \in Raised(out) : EmailReturn(r, out, e))

\* SpecStages when the dispatched run and the calls it awaits make
\* progress; the delete requests and the Dropbox run come or not.
SpecStagesLive == InitPipeline /\ [][NextStages]_vars /\ RunProgress(1)

\* Ingestion with the ids generateJobId can produce: uploads arriving in the
\* same or in different milliseconds, with equal or different suffixes.
NextIngest ==
  \/ \E r \in Requests, id \in JobIds : pc[r] = "none" /\ ProcessFile(r, id)
  \/ \E r \in Requests : RunStart(r)
  \/ \E r \in Requests, out \in TranscribeOutcomes :
       \E e \in Raised(out) : TranscribeReturn(r, out, e)
  \/ \E r \in Requests, out \in AnalyzeOutcomes :
       \E top \in Parsed(out), e \in Raised(out) : AnalyzeReturn(r, out, top, e)
  \/ \E r \in Requests, out \in EmailOutcomes :
       \E e \in Raised(out) : EmailReturn(r, out, e)
  \/ Tick
SpecIngest == InitPipeline /\ [][NextIngest]_vars

\* One request to /webhooks/teams, or one direct call of a client, for every
\* target, environment and outcome of the network.
InitWebhookSpec ==
  /\ InitRetry /\ InitJob /\ InitDropbox /\ InitWebhook /\ InitStore
  /\ rOpts = DefaultOptions
  /\ cfg = DefaultConfig
NextWebhook ==
  \/ WebhookReceive
  \/ ClientCall
  \/ \E did \in Attempts : Attempt(did)
SpecWebhook == InitWebhookSpec /\ [][NextWebhook]_vars

\* The store interface on its own: every sequence of at most MaxCalls calls,
\* made on both stores, at clock readings that go up.
InitStoreSpec ==
  /\ InitRetry /\ InitJob /\ InitDropbox /\ InitWebhook /\ InitStore
  /\ rOpts = DefaultOptions
  /\ cfg = DefaultConfig
  /\ wReq = DefaultRequest
NextStore ==
  \/ \E call \in Calls : StoreCall(call)
  \/ Tick
SpecStore == InitStoreSpec /\ [][NextStore]_vars

\* Jobs and pre-call plans with string ids: every sequence of at most
\* MaxPlanCalls calls, made on both stores.
NextPlans == \E call \in PlanCalls : PlanCall(call)
SpecPlans == InitStoreSpec /\ [][NextPlans]_vars

(***************************************************************************)
(* Properties of withExponentialBackoff (checked under SpecRetry)          *)
(***************************************************************************)

IsCall(x) == x.ev = "call"

\* The invocations of fn so far, in order.
RetryCalls == SelectSeq(rTrace, IsCall)

\* C1: with a retry budget n, an operation that fails on every invocation is
\* invoked exactly n+1 times, as attempts 0..n, before the call rejects: a
\* rejection comes after n+1 failed invocations and never after fewer, no
\* run invokes the operation more than n+1 times, and nothing is invoked
\* once the call has rejected.
C1_PermanentFailureInvokedBudgetPlusOne ==
  /\ Len(RetryCalls) <= rOpts.retries + 1
  /\ \A k \in DOMAIN RetryCalls : RetryCalls[k].attempt = k - 1
  /\ rPc = "rejected" =>
       /\ Len(RetryCalls) = rOpts.retries + 1
       /\ \A k \in DOMAIN RetryCalls : RetryCalls[k].err \in Errors
       /\ ~ENABLED NextRetry

\* C1's case: the largest budget, spent on a permanently failing operation.
C1_Witness ==
  /\ rPc = "rejected"
  /\ rOpts.retries = MaxRetries
  /\ Len(RetryCalls) = MaxRetries + 1

\* C2: when the budget is exhausted the error the caller gets is exactly the
\* error the last invocation raised, not wrapped, replaced or dropped.
C2_RejectsWithLastError ==
  rPc = "rejected" =>
    /\ rThrown = RetryCalls[Len(RetryCalls)].err
    /\ rThrown \in Errors

\* C2's case: a rejection after invocations that raised different errors.
C2_Witness ==
  /\ rPc = "rejected"
  /\ Len(RetryCalls) >= 2
  /\ RetryCalls[1].err # RetryCalls[Len(RetryCalls)].err
  /\ rThrown = RetryCalls[Len(RetryCalls)].err

\* floor(baseMs * factor^k), never negative
FlooredBackoff(k) ==
  LET q == (rOpts.baseMs * Pow(rOpts.factor[1], k)) \div Pow(rOpts.factor[2], k)
  IN IF q < 0 THEN 0 ELSE q

\* C3: after failed attempt k < retries the wait before attempt k+1 is
\* floor(baseMs * factor^k), never negative (a negative product waits 0) and
\* without jitter: onRetry is told that delay, attempt k+1 is preceded by a
\* sleep of exactly that delay (by no sleep when it is 0), and base 50 with
\* factor 2 gives 50, 100, 200.
C3_DelayIsFlooredExponential ==
  /\ \A i \in DOMAIN rTrace :
       rTrace[i].ev \in {"onRetry", "sleep"} =>
         /\ rTrace[i].delay = FlooredBackoff(rTrace[i].attempt)
         /\ rTrace[i].delay >= 0
         /\ rTrace[i].attempt < rOpts.retries
  /\ \A i \in DOMAIN rTrace :
       (rTrace[i].ev = "call" /\ rTrace[i].attempt > 0) =>
         LET k == rTrace[i].attempt - 1
         IN /\ rTrace[i - 1].attempt = k
            /\ rTrace[i - 1].ev = IF FlooredBackoff(k) > 0 THEN "sleep" ELSE "onRetry"
  /\ (rOpts.baseMs = 50 /\ rOpts.factor = <<2, 1>>) =>
       \A i \in DOMAIN rTrace :
         (rTrace[i].ev = "sleep" /\ rTrace[i].attempt <= 2) =>
           rTrace[i].delay = <<50, 100, 200>>[rTrace[i].attempt + 1]

\* C3's case: base 50, factor 2, the third wait (200) over and attempt 3 due.
C3_Witness ==
  /\ rOpts.baseMs = 50 /\ rOpts.factor = <<2, 1>>
  /\ rPc = "call" /\ rAttempt = 3
  /\ \E i \in DOMAIN rTrace :
       rTrace[i].ev = "sleep" /\ rTrace[i].attempt = 2 /\ rTrace[i].delay = 200

(***************************************************************************)
(* Properties of the job pipeline (checked under SpecPipeline, SpecStages) *)
(***************************************************************************)

\* The places in request r's trace where `what` was invoked / settled / ...
JobEvents(r, ev, what) ==
  {i \in DOMAIN jTrace[r] : jTrace[r][i].ev = ev /\ jTrace[r][i].what = what}

\* Stage `what` of request r settled in one of the ways `outs`.
Settled(r, what, outs) ==
  \E i \in JobEvents(r, "outcome", what) : jTrace[r][i].out \in outs

\* A store call of request r's pipeline raised.
StoreRaised(r) ==
  \E i \in DOMAIN jTrace[r] :
    jTrace[r][i].ev \in {"update", "get"} /\ jTrace[r][i].out = "raise"

\* The pipeline run of request r is over.
Finished(r) == pc[r] \in {"returned", "rejected"}

Terminal == {"done", "error"}

\* The requests whose job id has a record, and that record.
Recorded == {r \in Requests : jobIdOf[r] \in DOMAIN store}
Job(r) == store[jobIdOf[r]]

\* C4: once a job's status is done or error it never changes again, whatever
\* the stage outcomes, notification outcomes and store-update failures.
C4_TerminalStatusNeverChanges ==
  [][\A id \in DOMAIN store \cap DOMAIN store' :
       store[id].status \in Terminal => store'[id].status = store[id].status]_vars

\* The updates of request r that wrote status done.
DoneWrites(r) ==
  {i \in JobEvents(r, "update", "store") :
     /\ "status" \in DOMAIN jTrace[r][i].val
     /\ jTrace[r][i].val.status = "done"}

\* All stages of request r succeeded and its notify operation failed: it
\* returned false (with or without the transport being tried) or raised.
NotifyFailedAfterSuccess(r) ==
  /\ Finished(r)
  /\ Settled(r, "transcribe", {"text"})
  /\ Settled(r, "analyze", {"object"})
  /\ Settled(r, "notify", {"skipped", "failed", "throw"})

\* C5: if all stages of a job succeed and the notify operation fails, the
\* job ends with status done, resultSummary populated and equal to the value
\* written on success, and emailStatus error.
C5_NotifyFailureLeavesJobDone ==
  \A r \in Recorded :
    NotifyFailedAfterSuccess(r) =>
      /\ Job(r).status = "done"
      /\ Job(r).emailStatus = "error"
      /\ Job(r).resultSummary # Null
      /\ DoneWrites(r) # {}
      /\ \A i \in DoneWrites(r) :
           Job(r).resultSummary = jTrace[r][i].val.resultSummary

IsJobStage(x) == x.ev = "invoke" /\ x.what \in {"transcribe", "analyze", "notify"}
IsInvoke(x) == x.ev = "invoke"

\* The order of the job pipeline's operations.
JobStages == <<"transcribe", "analyze", "notify">>

\* The outcomes with which a stage succeeds.
Success == {"text", "object", "sent"}

\* The stage failures in request r's trace.
StageFailures(r) ==
  {i \in DOMAIN jTrace[r] :
     /\ jTrace[r][i].ev = "outcome"
     /\ jTrace[r][i].what \in {"transcribe", "analyze"}
     /\ jTrace[r][i].out \notin Success}

\* Nothing is invoked in request r's pipeline after place i of its trace.
NothingInvokedAfter(r, i) ==
  \A k \in DOMAIN jTrace[r] : k > i => jTrace[r][k].ev # "invoke"

\* C6: stages run in a fixed order and after a failed stage no later stage
\* is invoked: in runAnalysisForJob the operations invoked are a prefix of
\* transcription, analysis, notification, and a failed transcription (or
\* analysis) is followed by no invocation; in processDropboxAudioEvent the
\* operations invoked are a prefix of download, transcribe, summarize,
\* create doc, append row, and a failure at stage i leaves exactly stages
\* 1..i invoked.
C6_StagesInOrderStopAtFailure ==
  /\ \A r \in Requests :
       LET inv == SelectSeq(jTrace[r], IsJobStage)
       IN /\ Len(inv) <= Len(JobStages)
          /\ \A k \in DOMAIN inv : inv[k].what = JobStages[k]
          /\ \A i \in StageFailures(r) : NothingInvokedAfter(r, i)
          /\ JobEvents(r, "invoke", "analyze") # {} =>
               Settled(r, "transcribe", {"text"})
  /\ LET inv == SelectSeq(dTrace, IsInvoke)
     IN /\ Len(inv) <= Len(DropboxStages)
        /\ \A k \in DOMAIN inv : inv[k].what = DropboxStages[k]
        /\ \A i \in DOMAIN dTrace :
             (dTrace[i].ev = "ingest" /\ dTrace[i].out = "failure") =>
               /\ i = Len(dTrace)
               /\ Len(inv) = dStage
        /\ dPc = "thrown" => Len(inv) = dStage

\* C6's case: a job whose transcription failed, and a Dropbox run that
\* failed at its second stage of five.
C6_Witness ==
  /\ Finished(1)
  /\ Settled(1, "transcribe", {"empty", "throw"})
  /\ JobEvents(1, "invoke", "analyze") = {}
  /\ dPc = "thrown" /\ dStage = 2
  /\ Len(SelectSeq(dTrace, IsInvoke)) = 2

\* The failures of any stage of request r so far.
Failures(r) ==
  {i \in DOMAIN jTrace[r] :
     jTrace[r][i].ev = "outcome" /\ jTrace[r][i].out \notin Success}

\* C7: every stage is invoked through the retry executor, so a job whose
\* fetch-input stage has only failed with a transient error, at most
\* maxRetries = 2 times, is retried and ends done: it is never written as
\* error.
C7_TransientFetchFailureEndsDone ==
  \A r \in Recorded :
    ( /\ Failures(r) # {}
      /\ Cardinality(Failures(r)) <= FetchRetries
      /\ \A i \in Failures(r) :
           /\ jTrace[r][i].what = "transcribe"
           /\ jTrace[r][i].out = "throw"
           /\ jTrace[r][i].val = TransientError
      /\ ~StoreRaised(r) )
    => /\ Job(r).status # "error"
       /\ Finished(r) => Job(r).status = "done"

\* The underlying message of a stage failure.
JsonParseMessage == <<"Unexpected token < in JSON at position 0">>
UnderlyingMessage(x) ==
  CASE x.out = "throw" -> IF x.val = Null THEN <<"Unknown error">> ELSE x.val
    [] x.out = "empty" /\ x.what = "transcribe" -> EmptyTranscriptMessage
    [] x.out = "empty" /\ x.what = "analyze" -> EmptyAnalysisMessage
    [] x.out = "null" -> NullAnalysisMessage
    [] x.out = "badjson" -> JsonParseMessage

\* The names of the stages, as a summary would be prefixed with them.
StageName(what) == IF what = "transcribe" THEN "Transcription" ELSE "Analysis"

\* C8 as stated: on the first stage failure the record is written with
\* status error, error the underlying failure message and resultSummary a
\* failure message prefixed with the name of the stage that failed; then the
\* pipeline stops.
C8_FailureSummaryNamesFailedStage ==
  \A r \in Recorded :
    \A i \in StageFailures(r) :
      jTrace[r][i + 1].out = "ok" =>
        /\ Job(r).status = "error"
        /\ Job(r).error = UnderlyingMessage(jTrace[r][i])
        /\ Head(Job(r).resultSummary) = StageName(jTrace[r][i].what)
        /\ NothingInvokedAfter(r, i)

\* What the pipeline writes for a stage failure.
ExpectedFailureFields(x) ==
  IF x.out = "badjson"
  THEN [status |-> "error",
        resultSummary |-> <<"Analysis", " failed: ", "invalid JSON from model.">>,
        error |-> <<"Analysis", " failed: ", "invalid JSON from model.">>,
        emailStatus |-> "error"]
  ELSE [status |-> "error",
        resultSummary |-> <<"Analysis", " failed: ">> \o UnderlyingMessage(x),
        error |-> UnderlyingMessage(x),
        emailStatus |-> "error"]

\* C8 amended: on the first stage failure the pipeline at once issues one
\* update with status error and stops, invoking no later stage. For a raised
\* error or an empty result, error is the underlying message ("Unknown
\* error" when it has none) and resultSummary is "Analysis failed: " followed
\* by it, whichever stage failed; for an analysis that is not valid JSON both
\* are the fixed text "Analysis failed: invalid JSON from model.". When that
\* update goes through, it is the pipeline's last act and the record, while
\* it exists, holds these values.
C8_FailureWrittenWithAnalysisPrefix ==
  \A r \in Requests :
    \A i \in StageFailures(r) :
      LET tr == jTrace[r]
          expected == ExpectedFailureFields(tr[i])
      IN /\ i < Len(tr)
         /\ tr[i + 1].ev = "update"
         /\ tr[i + 1].val = expected
         /\ NothingInvokedAfter(r, i)
         /\ Finished(r)
         /\ tr[i + 1].out = "ok" =>
              /\ Len(tr) = i + 1
              /\ pc[r] = "returned"
              /\ r \in Recorded =>
                   /\ Job(r).status = "error"
                   /\ Job(r).resultSummary = expected.resultSummary
                   /\ Job(r).error = expected.error
                   /\ Job(r).emailStatus = "error"

\* C8's case: a failed transcription, written with the "Analysis failed: "
\* summary.
C8_Witness ==
  \E r \in Recorded :
    /\ Settled(r, "transcribe", {"throw"})
    /\ pc[r] = "returned"
    /\ Job(r).status = "error"
    /\ Job(r).error = TransientError
    /\ Job(r).resultSummary = <<"Analysis", " failed: ">> \o TransientError

\* C9: whenever a job reaches a terminal state, done or error, and a
\* notification recipient is configured, the notify operation is attempted
\* for that job.
C9_NotifyAttemptedOnEveryTerminalState ==
  \A r \in Recorded :
    (cfg.recipient /\ Finished(r) /\ Job(r).status \in Terminal) =>
      JobEvents(r, "invoke", "notify") # {}

\* C10: when no notification recipient is configured, a job that reaches a
\* terminal state ends with emailStatus skipped and the mail transport is
\* never invoked for it.
C10_NoRecipientEndsSkipped ==
  \A r \in Recorded :
    (~cfg.recipient /\ Finished(r) /\ Job(r).status \in Terminal) =>
      /\ Job(r).emailStatus = "skipped"
      /\ JobEvents(r, "invoke", "mail") = {}

\* The places in request r's trace where sendJobSummaryEmail was called.
NotifyInvokes(r) == JobEvents(r, "invoke", "notify")

\* C11: on every execution path of runAnalysisForJob the notify operation
\* (sendJobSummaryEmail) is invoked at most once, and only after the job's
\* terminal status has been written to the store: the call comes after an
\* update of that run that wrote status done and went through, and at the
\* moment of the call the job's record exists and has status done.
C11_NotifyOnceAfterTerminalWrite ==
  /\ [](\A r \in Requests :
         /\ Cardinality(NotifyInvokes(r)) <= 1
         /\ \A i \in NotifyInvokes(r) :
              \E j \in DoneWrites(r) : j < i /\ jTrace[r][j].out = "ok")
  /\ [][\A r \in Requests :
         NotifyInvokes(r)' # NotifyInvokes(r) =>
           /\ jobIdOf[r] \in DOMAIN store'
           /\ store'[jobIdOf[r]].status = "done"]_vars

\* C11's case: a run that called sendJobSummaryEmail and is over, its job
\* done.
C11_Witness ==
  \E r \in Recorded :
    /\ Finished(r)
    /\ Cardinality(NotifyInvokes(r)) = 1
    /\ Job(r).status = "done"
    /\ Job(r).emailStatus = "sent"

\* C12: every job record created by POST /process-file is stored with
\* status uploaded, and its status becomes processing only when the pipeline
\* runner begins work on it: while a created job's run is still queued, its
\* record has status uploaded.
C12_CreatedAsUploaded ==
  \A r \in Recorded : pc[r] = "queued" => Job(r).status = "uploaded"

\* C13: for any sequence of ingestion requests, including several arriving
\* within the same millisecond, no two requests are assigned the same job
\* id (so that no record is overwritten by a later createJob and no job id
\* has two pipeline runs): the ids of the accepted requests are all
\* different.
C13_JobIdsNeverCollide ==
  \A r1, r2 \in Requests :
    (r1 # r2 /\ jobIdOf[r1] # 0) => jobIdOf[r1] # jobIdOf[r2]

(***************************************************************************)
(* Properties of /webhooks/teams and its clients (checked under            *)
(* SpecWebhook)                                                            *)
(***************************************************************************)

\* The places in the trace with an event of kind ev (about `what`).
TraceEvents(ev) == {i \in DOMAIN wTrace : wTrace[i].ev = ev}
TraceEventsOf(ev, what) == {i \in TraceEvents(ev) : wTrace[i].what = what}

\* The webhook has answered its request.
Responded == wReq.entry = "webhook" /\ wPc = "responded"

\* C14: when the dry-run flag is set and the target is well-formed, the
\* webhook acknowledges with 200 {ok: true, dryRun: true}, appends exactly
\* one ingest event, and never invokes the transcript download or the Slack
\* post, whatever the network flag, the target's scheme and the Slack
\* webhook are; and it answers at once.
C14_DryRunShortCircuits ==
  (wReq.entry = "webhook" /\ wReq.dryRun /\ WellFormed(wReq.target)) =>
    /\ wPc \in {"idle", "responded"}
    /\ TraceEvents("attempt") = {}
    /\ TraceEvents("http") = {}
    /\ wPc = "responded" =>
         /\ wResp = Response(200, "", TRUE)
         /\ Cardinality(TraceEvents("ingest")) = 1
         /\ TraceEventsOf("ingest", "dryRun") # {}

\* C14's case: a dry run with a real target, the network not allowed and no
\* Slack webhook.
C14_Witness ==
  /\ Responded
  /\ wReq.dryRun /\ wReq.target = "real"
  /\ ~wReq.allowNetwork /\ wReq.slack = "unset"
  /\ wResp.status = 200 /\ wResp.dryRun

NetworkDisabled == Response(400, "network_disabled", FALSE)

\* C15 as stated: while the network-allowed flag is not set, no real
\* outbound HTTP request is ever issued, and a request naming a real URL is
\* rejected with network_disabled.
C15_NetworkOffRejectsRealUrls ==
  ~wReq.allowNetwork =>
    /\ TraceEvents("http") = {}
    /\ (Responded /\ wReq.target = "real") => wResp = NetworkDisabled

\* C15 amended: while the network-allowed flag is not set, no real outbound
\* HTTP request is ever issued, on any path through the webhook,
\* downloadTranscript or postToSlack. A webhook request naming a real
\* transcript URL is rejected with 400 network_disabled unless the dry-run
\* flag is set, when it gets the dry-run acknowledgement; one with a mock
\* transcript and a real Slack webhook is rejected with network_disabled
\* too. Called directly with a real URL, each client rejects with its
\* "Network disabled" error after retries + 1 invocations.
C15_NetworkOffIssuesNoRequest ==
  ~wReq.allowNetwork =>
    /\ TraceEvents("http") = {}
    /\ (Responded /\ wReq.target = "real") =>
         wResp = IF wReq.dryRun THEN Response(200, "", TRUE) ELSE NetworkDisabled
    /\ (Responded /\ wReq.target = "mock" /\ ~wReq.dryRun /\ wReq.slack = "real") =>
         wResp = NetworkDisabled
    /\ (wReq.entry = "downloadTranscript" /\ wReq.target = "real") =>
         /\ wPc # "resolved"
         /\ wPc = "rejected" =>
              /\ wErr = NetworkDisabledDownload
              /\ Cardinality(TraceEventsOf("attempt", "download")) = FetchRetries + 1
    /\ (wReq.entry = "postToSlack" /\ wReq.slack = "real") =>
         /\ wPc # "resolved"
         /\ wPc = "rejected" =>
              /\ wErr = NetworkDisabledPost
              /\ Cardinality(TraceEventsOf("attempt", "post")) = SlackRetries + 1

\* C15's case: the network is off, dry-run is off, and a request naming a
\* real transcript URL has been rejected.
C15_Witness ==
  /\ Responded
  /\ ~wReq.allowNetwork /\ ~wReq.dryRun /\ wReq.target = "real"
  /\ wResp = NetworkDisabled
  /\ TraceEventsOf("ingest", "network_disabled") # {}

\* The decision order of the inbound gate, first match first.
FirstMatch ==
  IF wReq.target \in {"missing", "nonstring", "empty"} THEN "invalid_input"
  ELSE IF wReq.dryRun THEN "dry_run"
  ELSE IF wReq.target = "mock" THEN "proceed"
  ELSE IF ~wReq.allowNetwork THEN "network_disabled"
  ELSE "proceed"

\* What the handler is seen to have decided on its way in.
Decided(d) ==
  CASE d = "invalid_input" ->
         wPc = "responded" /\ wTrace = <<>> /\ wResp = Response(400, "invalid_input", FALSE)
    [] d = "dry_run" ->
         wPc = "responded" /\ TraceEvents("attempt") = {} /\ wResp = Response(200, "", TRUE)
    [] d = "network_disabled" ->
         wPc = "responded" /\ TraceEvents("attempt") = {} /\ wResp = NetworkDisabled
    [] d = "proceed" ->
         wPc = "download" \/ TraceEventsOf("attempt", "download") # {}

\* C16: for every combination of target (missing, not a string, empty,
\* mock:, real URL), dry-run flag and network-allowed flag, the inbound
\* decision of the webhook is the first match of: malformed target gives
\* invalid_input; dry-run gives the dry-run acknowledgement; a mock: target
\* proceeds whatever the network flag; network not allowed with a real
\* target gives network_disabled; otherwise proceed. No other decision is
\* seen.
C16_InboundDecisionIsFirstMatch ==
  (wReq.entry = "webhook" /\ wPc # "idle") =>
    \A d \in {"invalid_input", "dry_run", "network_disabled", "proceed"} :
      Decided(d) <=> d = FirstMatch

\* C16's case: a mock: target went on to the download with the network off.
C16_Witness ==
  /\ wReq.entry = "webhook"
  /\ wReq.target = "mock" /\ ~wReq.allowNetwork /\ ~wReq.dryRun
  /\ TraceEventsOf("attempt", "download") # {}
  /\ Decided("proceed")

MissingSlackWebhook == Response(400, "missing_slack_webhook", FALSE)

\* The request is not a dry run, names a well-formed transcript and finds no
\* Slack webhook configured.
NoSlackWebhook ==
  /\ wReq.entry = "webhook"
  /\ ~wReq.dryRun /\ WellFormed(wReq.target)
  /\ wReq.slack = "unset"

\* The transcript download resolved.
TranscriptFetched ==
  \E i \in TraceEventsOf("attempt", "download") : wTrace[i].out = "ok"

C18_OneIngestEventPerRequest ==
  Responded => Cardinality(TraceEvents("ingest")) = 1

PostAttempts == TraceEventsOf("attempt", "post")
SlackPostFailed == Response(502, "slack_post_failed", FALSE)

\* C19: when the Slack post has failed on every attempt, the webhook answers
\* only after retries + 1 attempts (4 with postToSlack's defaults); it then
\* has appended one ingest event, the one recording slack.ok = false, and
\* answers 502 slack_post_failed; no success event is appended and the
\* answer is never 200.
C19_SlackFailureAfterAllAttempts ==
  (wReq.entry = "webhook" /\ PostAttempts # {}
     /\ \A i \in PostAttempts : wTrace[i].out = "fail") =>
    /\ Cardinality(PostAttempts) <= SlackRetries + 1
    /\ wPc = "post" =>
         /\ wResp = NoResponse
         /\ TraceEvents("ingest") = {}
    /\ wPc = "responded" =>
         /\ Cardinality(PostAttempts) = SlackRetries + 1
         /\ Cardinality(TraceEvents("ingest")) = 1
         /\ TraceEventsOf("ingest", "slack_failed") # {}
         /\ TraceEventsOf("ingest", "slack_ok") = {}
         /\ wResp = SlackPostFailed
         /\ wResp.status # 200

\* C19's case: four failed posts to mock:fail, then the 502.
C19_Witness ==
  /\ Responded
  /\ wReq.slack = "mockfail"
  /\ Cardinality(PostAttempts) = 4
  /\ \A i \in PostAttempts : wTrace[i].out = "fail"
  /\ wResp = SlackPostFailed

\* The answer the handler gives on the path that appends the event `kind`.
AnswerOf(kind) ==
  CASE kind = "dryRun" -> Response(200, "", TRUE)
    [] kind = "network_disabled" -> NetworkDisabled
    [] kind = "missing_slack_webhook" -> MissingSlackWebhook
    [] kind = "slack_failed" -> SlackPostFailed
    [] kind = "slack_ok" -> Response(200, "", FALSE)

\* C20: appendIngestEvent never raises to its caller. Whether the line
\* reached the log or the write failed and was swallowed, the request gets
\* the answer of the path it took, never the catch-all's internal_error;
\* a step that appends an event answers the same with the write failing as
\* with the write succeeding.
C20_LogFailureNeverChangesResponse ==
  /\ \A i \in TraceEvents("ingest") :
       ~AppendIngestEvent(ingestLog, wTrace[i], FALSE).raised
  /\ Responded =>
       \A i \in TraceEvents("ingest") :
         /\ wResp = AnswerOf(wTrace[i].what)
         /\ wResp # InternalError
         /\ ingestLog \in {<<>>, <<wTrace[i]>>}

\* C20's case: the event was handed to the logger, the write failed, and
\* the request was answered 200 all the same.
C20_Witness ==
  /\ Responded
  /\ TraceEventsOf("ingest", "slack_ok") # {}
  /\ ingestLog = <<>>
  /\ wResp = Response(200, "", FALSE)

(***************************************************************************)
(* Properties of the job store (checked under SpecStore)                   *)
(***************************************************************************)

\* This step is a call of `op` on the two stores.
Called(op) == sCalls' = sCalls + 1 /\ sCall'.op = op

\* The call left backend b's rows, their order and its listing as they were.
StoreUntouched(b) ==
  /\ sTbl'[b] = sTbl[b]
  /\ sOrd'[b] = sOrd[b]
  /\ GetJobs(b, sTbl'[b], sOrd'[b]) = GetJobs(b, sTbl[b], sOrd[b])

\* C21: createJob with an id that is already in the store fails with a
\* duplicate-id error and leaves the existing record, all its fields and
\* its place in the listing, unchanged, on the SQLite store and on the
\* in-memory store.
C21_DuplicateCreateRefused ==
  [][Called("createJob") =>
       \A b \in Backends :
         sCall'.id \in DOMAIN sTbl[b] =>
           /\ sRes'[b].raised = DuplicateIdError
           /\ StoreUntouched(b)]_vars

\* C22: updateJob on an id that is not in the store fails with an error (it
\* does not return silently) and creates no record.
C22_UpdateOfAbsentIdFails ==
  [][Called("updateJob") =>
       \A b \in Backends :
         sCall'.id \notin DOMAIN sTbl[b] =>
           /\ sRes'[b].raised # Null
           /\ sTbl'[b] = sTbl[b]]_vars

\* The allowed fields an update names.
Named(fields) == DOMAIN fields \cap AllowedFields

\* C23: updateJob(id, fields) changes only the allowed fields named in
\* `fields`, and updatedAt, on the record with that id: the record's id and
\* createdAt, every field not named, every other record and the set and
\* order of the records are left as they were, on both stores.
C23_UpdateTouchesOnlyNamedFields ==
  [][Called("updateJob") =>
       \A b \in Backends :
         /\ DOMAIN sTbl'[b] = DOMAIN sTbl[b]
         /\ sOrd'[b] = sOrd[b]
         /\ \A id \in DOMAIN sTbl[b] :
              IF id # sCall'.id THEN sTbl'[b][id] = sTbl[b][id]
              ELSE /\ sTbl'[b][id].id = id
                   /\ sTbl'[b][id].createdAt = sTbl[b][id].createdAt
                   /\ \A k \in DOMAIN sTbl[b][id] :
                        IF k \in Named(sCall'.arg)
                        THEN sTbl'[b][id][k] = sCall'.arg[k]
                        ELSE k # "updatedAt" => sTbl'[b][id][k] = sTbl[b][id][k]
                   /\ Named(sCall'.arg) # {} => sTbl'[b][id].updatedAt = clock]_vars

\* C23's case: an update naming `error` beside keys that are not allowed
\* (id, createdAt) has been applied to one of two records, later than the
\* record was created.
C23_Witness ==
  /\ sCall.op = "updateJob"
  /\ DOMAIN sCall.arg = {"error", "id", "createdAt"}
  /\ \A b \in Backends :
       /\ Cardinality(DOMAIN sTbl[b]) = 2
       /\ sCall.id \in DOMAIN sTbl[b]
       /\ sTbl[b][sCall.id].error = sCall.arg.error
       /\ sTbl[b][sCall.id].id = sCall.id
       /\ sTbl[b][sCall.id].createdAt # sCall.arg.createdAt
       /\ sTbl[b][sCall.id].updatedAt = clock
       /\ sTbl[b][sCall.id].createdAt < clock

\* C24: updateJob called with an empty field set, or with only keys outside
\* the allowed set, leaves the whole record unchanged, updatedAt included,
\* and with it the store; it returns normally.
C24_EmptyUpdateIsNoOp ==
  [][(Called("updateJob") /\ Named(sCall'.arg) = {}) =>
       \A b \in Backends :
         /\ StoreUntouched(b)
         /\ sCall'.id # NoId => sRes'[b] = Returned]_vars

\* C24's case: an update with only keys that are not allowed was made on a
\* stored record at a later clock reading than the record's updatedAt.
C24_Witness ==
  /\ sCall.op = "updateJob"
  /\ DOMAIN sCall.arg = {"id", "createdAt", "updatedAt"}
  /\ \A b \in Backends :
       /\ sCall.id \in DOMAIN sTbl[b]
       /\ sTbl[b][sCall.id].updatedAt < clock
       /\ sRes[b] = Returned

\* The ids a listing shows.
Listed(rows) == {rows[i].id : i \in DOMAIN rows}

\* C25: deleteJobById on an id that is not in the store does not raise and
\* leaves the store unchanged; deleting an id a second time leaves the
\* store as the first delete left it; after a delete getJobById(id) finds
\* nothing and no listing of getJobs shows the id. The other records stay.
C25_DeleteIsIdempotent ==
  [][Called("deleteJobById") =>
       \A b \in Backends :
         LET id == sCall'.id
         IN /\ sRes'[b] = Returned
            /\ id \notin DOMAIN sTbl[b] => StoreUntouched(b)
            /\ DeleteJobById(sTbl'[b], id) = sTbl'[b]
            /\ OrderAfterDelete(sOrd'[b], id) = sOrd'[b]
            /\ GetJobById(sTbl'[b], id) = <<>>
            /\ \A rows \in GetJobs(b, sTbl'[b], sOrd'[b]) : id \notin Listed(rows)
            /\ \A other \in DOMAIN sTbl[b] \ {id} :
                 /\ other \in DOMAIN sTbl'[b]
                 /\ sTbl'[b][other] = sTbl[b][other]]_vars

\* C25's case: after three calls the last was a delete; the id is gone and
\* the other record is still there.
C25_Witness ==
  /\ sCall.op = "deleteJobById"
  /\ sCalls = 3
  /\ \A b \in Backends :
       /\ sCall.id \notin DOMAIN sTbl[b]
       /\ Cardinality(DOMAIN sTbl[b]) = 1
       /\ Len(sOrd[b]) = 1
       /\ sRes[b] = Returned

\* The place of id in backend b's order of insertion.
PlaceOf(b, id) == CHOOSE i \in DOMAIN sOrd[b] : sOrd[b][i] = id

\* `rows` holds every job of backend b once, the most recently created
\* first, jobs with equal createdAt in the order they were inserted.
NewestFirst(b, rows) ==
  /\ Len(rows) = Cardinality(DOMAIN sTbl[b])
  /\ Listed(rows) = DOMAIN sTbl[b]
  /\ \A i \in DOMAIN rows : rows[i] = sTbl[b][rows[i].id]
  /\ \A i, j \in DOMAIN rows :
       i < j =>
         \/ rows[i].createdAt > rows[j].createdAt
         \/ /\ rows[i].createdAt = rows[j].createdAt
            /\ PlaceOf(b, rows[i].id) < PlaceOf(b, rows[j].id)

\* C26: getJobs returns every stored job exactly once, ordered by createdAt
\* descending, records with equal createdAt in insertion order, on both
\* stores.
C26_ListingNewestFirst ==
  sCall.op = "getJobs" => \A b \in Backends : NewestFirst(b, sRes[b].rows)

\* C27: after every sequence of createJob, updateJob, getJobById, getJobs
\* and deleteJobById calls, creates of an existing id and updates and
\* deletes of absent ids included, the SQLite store and the in-memory store
\* have returned the same rows and raised the same error, or both none.
C27_StoresAgree == sRes["sqlite"] = sRes["memory"]

(***************************************************************************)
(* Properties of POST /process-file and of concurrent jobs                 *)
(***************************************************************************)

\* C28: for POST /process-file, the job record is created before the
\* response is sent; the response with the jobId is sent before the
\* pipeline of the request starts, while the job is still processing, so it
\* never waits for a terminal state; when creating the record fails the
\* caller gets an error and no pipeline run is dispatched.
C28_RespondThenDispatch ==
  /\ [](\A r \in Requests :
          /\ res[r] = 200 => (jobIdOf[r] # 0 /\ issuedAt[jobIdOf[r]] # 0)
          /\ pc[r] # "none" => res[r] = 200
          /\ res[r] \in {400, 500} =>
               (pc[r] = "none" /\ jTrace[r] = <<>> /\ jobIdOf[r] = 0))
  /\ [][\A r \in Requests :
          res'[r] # res[r] =>
            /\ res'[r] = 200 =>
                 /\ pc'[r] = "queued" /\ jTrace'[r] = <<>>
                 /\ jobIdOf'[r] \in DOMAIN store'
                 /\ store'[jobIdOf'[r]].status = "processing"
            /\ res'[r] = 500 => (store' = store /\ pc' = pc)]_vars

\* C28's case: one request has been answered 200 and its pipeline is under
\* way, another's createJob failed and it was answered 500.
C28_Witness ==
  \E r1, r2 \in Requests :
    /\ res[r1] = 200 /\ pc[r1] \notin {"none", "queued"}
    /\ res[r2] = 500 /\ pc[r2] = "none"

\* The fields of a job record that tell how its run ended, as POST
\* /process-file creates them.
AsCreated ==
  [status |-> "processing", resultSummary |-> Null, error |-> Null,
   emailStatus |-> "pending", emailSentAt |-> NoTime]

\* Those fields after the updates that the trace `tr` of one pipeline run
\* shows as made, and nothing else.
RECURSIVE Alone(_, _)
Alone(tr, rec) ==
  IF tr = <<>> THEN rec
  ELSE LET e == Head(tr)
       IN Alone(Tail(tr),
                IF e.ev = "update" /\ e.out = "ok"
                THEN [k \in DOMAIN rec |->
                        IF k \in DOMAIN e.val THEN e.val[k] ELSE rec[k]]
                ELSE rec)

\* This step is one of request r's pipeline.
PipelineStep(r) == pc[r] # "none" /\ (pc'[r] # pc[r] \/ jTrace'[r] # jTrace[r])

\* C29: for two jobs with distinct ids whose pipelines run interleaved in
\* any order, no step of one job's pipeline changes the other job's record,
\* and each job's record (status, resultSummary, error, emailStatus,
\* emailSentAt) is at every moment, the last included, what the updates of
\* its own run make of it: the same as if the job had run alone.
C29_JobsDoNotInterfere ==
  /\ [](\A r \in Recorded :
          \A k \in DOMAIN AsCreated : Job(r)[k] = Alone(jTrace[r], AsCreated)[k])
  /\ [][\A r \in Requests :
          PipelineStep(r) =>
            \A r2 \in Recorded \ {r} :
              /\ jobIdOf[r2] \in DOMAIN store'
              /\ store'[jobIdOf[r2]] = Job(r2)]_vars

\* C29's case: the two runs are over, one job ended as done and the other as
\* error.
C29_Witness ==
  /\ \A r \in Requests : r \in Recorded /\ Finished(r)
  /\ jobIdOf[1] # jobIdOf[2]
  /\ Job(1).status = "done" /\ Job(1).emailStatus = "sent"
  /\ Job(2).status = "error" /\ Job(2).error # Null

(***************************************************************************)
(* Properties of processDropboxAudioEvent (checked under SpecStages)       *)
(***************************************************************************)

DropboxIngests == {i \in DOMAIN dTrace : dTrace[i].ev = "ingest"}
DropboxInvoked == {dTrace[i].what : i \in {j \in DOMAIN dTrace : dTrace[j].ev = "invoke"}}
AllStages == {DropboxStages[k] : k \in DOMAIN DropboxStages}

\* C30: a run of processDropboxAudioEvent on a valid event appends exactly
\* one ingest event, as its last act: success: true when it returns, which
\* it does only after all five stages were invoked and resolved;
\* success: false with the message of the error when it fails, which it
\* does as soon as a stage rejects, throwing that very error. While stages
\* are awaited nothing has been appended, and a failed run never returns.
C30_OneIngestEventPerDropboxRun ==
  /\ dPc = "await" => DropboxIngests = {}
  /\ dPc = "returned" =>
       /\ DropboxIngests = {Len(dTrace)}
       /\ dTrace[Len(dTrace)].out = "success"
       /\ DropboxInvoked = AllStages
       /\ dErr = Null
  /\ (dPc = "thrown" /\ dTrace # <<>>) =>
       /\ DropboxIngests = {Len(dTrace)}
       /\ dTrace[Len(dTrace)].out = "failure"
       /\ dTrace[Len(dTrace)].val = dErr
       /\ dErr # Null
  /\ \A i \in DropboxIngests : dTrace[i].out = "failure" => dPc = "thrown"

\* C30's case: the third stage rejected; the run threw that error after one
\* failure event.
C30_Witness ==
  /\ dPc = "thrown" /\ dStage = 3
  /\ dErr \in Errors
  /\ Cardinality(DropboxIngests) = 1
  /\ dTrace[Len(dTrace)] = Event("ingest", "log", "failure", dErr)

(***************************************************************************)
(* Properties of the clients called directly (checked under SpecWebhook)   *)
(***************************************************************************)

\* The call is one of a client with an argument its check refuses.
MalformedCall ==
  \/ /\ wReq.entry = "downloadTranscript"
     /\ wReq.target \in {"missing", "nonstring", "empty"}
  \/ wReq.entry = "postToSlack" /\ wReq.slack = "unset"

\* C31: in downloadTranscript and postToSlack a malformed target (not a
\* string, or empty) raises before the retried operation is invoked: the
\* operation is invoked 0 times, no retry round and so no backoff wait
\* takes place, and the call rejects at once with the validation error.
C31_ValidationErrorsAreNotRetried ==
  MalformedCall =>
    /\ wPc \in {"idle", "rejected"}
    /\ TraceEvents("attempt") = {} /\ TraceEvents("http") = {}
    /\ wAttempt = 0
    /\ wPc = "rejected" =>
         /\ wTrace = <<>>
         /\ wErr = IF wReq.entry = "downloadTranscript" THEN InvalidUrl
                   ELSE MissingSlackUrl

\* C31's case: downloadTranscript was called with something that is not a
\* string and has rejected.
C31_Witness ==
  /\ wReq.entry = "downloadTranscript" /\ wReq.target = "nonstring"
  /\ wPc = "rejected" /\ wErr = InvalidUrl
  /\ wTrace = <<>>

(***************************************************************************)
(* Invariants of the job records                                           *)
(***************************************************************************)

\* C32: in every reachable state, a job record's emailSentAt is non-null
\* only if its emailStatus is 'sent'.
C32_SentAtOnlyWhenSent ==
  \A id \in DOMAIN store :
    store[id].emailSentAt # NoTime => store[id].emailStatus = "sent"

\* C33: in every reachable state, a job record's resultSummary is non-null
\* only if its status is done or error; a job that is uploaded or
\* processing has no resultSummary.
C33_SummaryOnlyWhenTerminal ==
  \A id \in DOMAIN store :
    /\ store[id].resultSummary # Null => store[id].status \in Terminal
    /\ store[id].status \in {"uploaded", "processing"} =>
         store[id].resultSummary = Null

\* C33's case: one job has ended with a summary while another, created with
\* the same id or another, is still processing without one.
C33_Witness ==
  \E r1, r2 \in Recorded :
    /\ Finished(r1) /\ Job(r1).resultSummary # Null /\ Job(r1).status = "error"
    /\ pc[r2] = "analyzing" /\ Job(r2).status = "processing"
    /\ Job(r2).resultSummary = Null

(***************************************************************************)
(* The retry step of withExponentialBackoff (checked under SpecRetry)      *)
(***************************************************************************)

IsOnRetry(x) == x.ev = "onRetry"

\* The onRetry calls so far, in order.
OnRetryCalls == SelectSeq(rTrace, IsOnRetry)

\* onRetry is called once per retry and never for the failure that spends
\* the budget: its calls are for attempts 0, 1, ... in order, each below
\* the budget, and a rejected call has seen exactly `retries` of them.
OncePerRetry ==
  /\ \A k \in DOMAIN OnRetryCalls : OnRetryCalls[k].attempt = k - 1
  /\ Len(OnRetryCalls) <= rOpts.retries
  /\ rPc = "rejected" => Len(OnRetryCalls) = rOpts.retries
  /\ rPc \in {"call", "sleep"} => Len(OnRetryCalls) = Len(RetryCalls)

\* C34 as stated: for each failed attempt k < retries the call waits the
\* backoff delay, then invokes onRetry once with {attempt: k, delay, error},
\* then starts attempt k+1; onRetry is invoked once per retry and not for
\* the final failure.
C34_WaitThenCallbackThenRetry ==
  /\ OncePerRetry
  /\ \A i \in DOMAIN rTrace :
       (rTrace[i].ev = "call" /\ rTrace[i].attempt > 0) =>
         /\ rTrace[i - 1].ev = "onRetry"
         /\ rTrace[i - 1].attempt = rTrace[i].attempt - 1
         /\ rTrace[i - 1].delay > 0 =>
              /\ rTrace[i - 2].ev = "sleep"
              /\ rTrace[i - 2].delay = rTrace[i - 1].delay

\* C34, amended: for each failed attempt k < retries the call invokes
\* onRetry once with {attempt: k, delay, error: the error of attempt k}
\* straight after the failure, then waits the delay when it is positive,
\* then starts attempt k+1; onRetry is invoked once per retry and not for
\* the final failure.
C34_CallbackThenWaitThenRetry ==
  /\ OncePerRetry
  /\ \A i \in DOMAIN rTrace :
       rTrace[i].ev = "onRetry" =>
         /\ i > 1
         /\ rTrace[i - 1].ev = "call"
         /\ rTrace[i - 1].attempt = rTrace[i].attempt
         /\ rTrace[i - 1].err = rTrace[i].err
         /\ rTrace[i].err \in Errors
         /\ rTrace[i].delay =
              BackoffDelay(rOpts.baseMs, rOpts.factor, rTrace[i].attempt)
         /\ i < Len(rTrace) =>
              IF rTrace[i].delay > 0
              THEN /\ rTrace[i + 1].ev = "sleep"
                   /\ rTrace[i + 1].delay = rTrace[i].delay
                   /\ i + 1 < Len(rTrace) =>
                        /\ rTrace[i + 2].ev = "call"
                        /\ rTrace[i + 2].attempt = rTrace[i].attempt + 1
              ELSE /\ rTrace[i + 1].ev = "call"
                   /\ rTrace[i + 1].attempt = rTrace[i].attempt + 1

\* C34's case: a call that retried through a positive wait and was rejected
\* once its budget was spent.
C34_Witness ==
  /\ rPc = "rejected"
  /\ rOpts.retries >= 2
  /\ Len(OnRetryCalls) = rOpts.retries
  /\ \E k \in DOMAIN OnRetryCalls : OnRetryCalls[k].delay > 0

\* C35: when the computed backoff delay is 0, the call still suspends
\* between the failed attempt and the next one: the catch block of a failed
\* attempt that is to be retried always ends in the suspended state, never
\* straight at the next invocation of fn.
C35_ZeroDelayStillSuspends ==
  [][(/\ rPc = "caught"
      /\ ~BudgetExhausted(rAttempt, rOpts.retries)
      /\ BackoffDelay(rOpts.baseMs, rOpts.factor, rAttempt) = 0)
     => rPc' = "sleep"]_vars

(***************************************************************************)
(* A failed write of the successful outcome                                *)
(***************************************************************************)

\* The i-th entry of request r's trace is the update writing done, raising.
DoneUpdateFailed(r, i) ==
  /\ jTrace[r][i].ev = "update"
  /\ jTrace[r][i].out = "raise"
  /\ "status" \in DOMAIN jTrace[r][i].val
  /\ jTrace[r][i].val.status = "done"

\* C36: if the store update that records a job's successful outcome fails,
\* the pipeline stops: after the failed update the run invokes no stage and
\* no notification (all it does is the failure write of its catch), it has
\* ended, and the job's record is not done.
C36_FailedDoneUpdateStopsPipeline ==
  \A r \in Requests : \A i \in DOMAIN jTrace[r] :
    DoneUpdateFailed(r, i) =>
      /\ \A j \in DOMAIN jTrace[r] :
           j > i => /\ jTrace[r][j].ev = "update"
                    /\ jTrace[r][j].val = FailureFields(StoreError)
      /\ Len(jTrace[r]) = i + 1
      /\ pc[r] \in {"returned", "rejected"}
      /\ jobIdOf[r] \in DOMAIN store => store[jobIdOf[r]].status # "done"

\* C36's case: the update writing done raised and the run has ended with
\* the failure written to the record.
C36_Witness ==
  \E r \in Requests : \E i \in DOMAIN jTrace[r] :
    /\ DoneUpdateFailed(r, i)
    /\ pc[r] = "returned"
    /\ jobIdOf[r] \in DOMAIN store
    /\ store[jobIdOf[r]].status = "error"

(***************************************************************************)
(* Termination of runAnalysisForJob (checked under SpecStagesLive)         *)
(***************************************************************************)

\* No store call of request r's run has raised.
StoreHeld(r) ==
  \A i \in DOMAIN jTrace[r] : jTrace[r][i].out # "raise"

\* Request r's run is over and, if its store calls succeeded and its record
\* is still there, the record is done or error.
RunSettled(r) ==
  /\ Finished(r)
  /\ (StoreHeld(r) /\ r \in Recorded) => Job(r).status \in Terminal

\* C37: every job dispatched by POST /process-file eventually has status
\* done or error, provided every external call eventually returns or fails
\* and the store updates succeed; and no run of runAnalysisForJob returns
\* leaving its job's status at processing.
C37_DispatchedJobsSettle ==
  /\ \A r \in Requests : (pc[r] = "queued") ~> RunSettled(r)
  /\ [][\A r \in Requests :
         (pc[r] # "returned" /\ pc'[r] = "returned" /\ jobIdOf[r] \in DOMAIN store')
           => store'[jobIdOf[r]].status \in Terminal]_vars

\* C37's case: a run that went through every stage with the store holding
\* has returned and its job is done.
C37_Witness ==
  \E r \in Recorded :
    /\ pc[r] = "returned" /\ StoreHeld(r)
    /\ Job(r).status = "done" /\ Job(r).emailStatus = "sent"

(***************************************************************************)
(* A job deleted under its running pipeline (checked under SpecStagesLive) *)
(***************************************************************************)

\* The orders in which the ids of table st can lie in the store.
OrdersOf(st) ==
  {o \in [1..Cardinality(DOMAIN st) -> DOMAIN st] :
     \A i, j \in DOMAIN o : i # j => o[i] # o[j]}

\* Neither getJobById(id) nor any listing of getJobs() shows id in table st.
NotFound(st, id) ==
  /\ GetJobById(st, id) = <<>>
  /\ \A ord \in OrdersOf(st) : \A rows \in GetJobs(cfg.backend, st, ord) :
       \A i \in DOMAIN rows : rows[i].id # id

\* Request r's job was created and dispatched, and its record is gone.
DeletedJob(r) == res[r] = 200 /\ jobIdOf[r] \notin DOMAIN store

PlanCalled(op) == pCalls' = pCalls + 1 /\ pCall'.op = op

\* getPrecallPlanById(id) finds a plan in backend b's store.
PlanFound(b, mem, sql, id) ==
  IF b = "memory" THEN MemGetPrecallPlanById(mem, id).res.rows # <<>>
  ELSE SqlSelect(sql, "precall_plans", id).res.rows # <<>>

\* C39: DELETE /precall-plans/:id answers ok exactly when a plan with that
\* id existed before the call, the plan being not found afterwards, and 404
\* exactly when none existed, with the same answer on the SQLite-backed and
\* on the in-memory store.
C39_DeletePlanAnswersByExistence ==
  [][PlanCalled("DELETE /precall-plans/:id") =>
       /\ \A b \in Backends :
            /\ ~PlanFound(b, memDb', sqlDb', pCall'.id)
            /\ pRes'[b].status =
                 IF PlanFound(b, memDb, sqlDb, pCall'.id) THEN 200 ELSE 404
       /\ (PlanFound("memory", memDb, sqlDb, pCall'.id)
            = PlanFound("sqlite", memDb, sqlDb, pCall'.id))
           => pRes'["memory"].status = pRes'["sqlite"].status]_vars

\* The objects of the in-memory store that the step changed, and those it
\* took out of jobsById.
Changed == {r \in DOMAIN memDb.heap : memDb'.heap[r] # memDb.heap[r]}
Removed ==
  {memDb.jobsById[k] : k \in DOMAIN memDb.jobsById \ DOMAIN memDb'.jobsById}

\* C40: in the in-memory store, job operations and pre-call-plan operations
\* never see each other's records: for every id string getJobById,
\* updateJob and deleteJobById return, change and remove only records made
\* by createJob, and getPrecallPlanById and deletePrecallPlanById only
\* records made by createPrecallPlan.
C40_JobsAndPlansApart ==
  [][LET rows == pRes'["memory"].result.rows
     IN /\ PlanCalled("getJobById") =>
             \A i \in DOMAIN rows : rows[i].by = "createJob"
        /\ PlanCalled("updateJob") =>
             \A r \in Changed : memDb.heap[r].by = "createJob"
        /\ PlanCalled("deleteJobById") =>
             \A r \in Removed : memDb.heap[r].by = "createJob"
        /\ PlanCalled("getPrecallPlanById") =>
             \A i \in DOMAIN rows : rows[i].by = "createPrecallPlan"
        /\ PlanCalled("deletePrecallPlanById") =>
             \A r \in Removed : memDb.heap[r].by = "createPrecallPlan"]_vars

====
